---------------------------- MODULE Spec2Model ----------------------------
(***************************************************************************)
(* A model of the authorization protocol engine of the OAuth 2.1 server:   *)
(* the authorization endpoint (AuthHandler.AuthorizeHandler), the          *)
(* in-process authorization-code map of AuthUseCase, the code exchange     *)
(* (AuthUseCase.ExchangeCodeForTokens) and the PKCE check                  *)
(* (AuthUseCase.validatePKCE).                                             *)
(***************************************************************************)
EXTENDS Integers, Sequences, FiniteSets, TLC

(***************************************************************************)
(* 32-bit words.  TLC's integers are 32-bit signed, so a word is a pair    *)
(* <<hi, lo>> of its two 16-bit halves.                                    *)
(***************************************************************************)
RECURSIVE Pow2(_)
Pow2(n) == IF n = 0 THEN 1 ELSE 2 * Pow2(n - 1)

Half == Pow2(16)

RECURSIVE XorBits(_, _, _)
XorBits(a, b, k) ==
    IF k = 0 THEN 0
    ELSE (((a % 2) + (b % 2)) % 2) + (2 * XorBits(a \div 2, b \div 2, k - 1))

RECURSIVE AndBits(_, _, _)
AndBits(a, b, k) ==
    IF k = 0 THEN 0
    ELSE ((a % 2) * (b % 2)) + (2 * AndBits(a \div 2, b \div 2, k - 1))

WXor(x, y) == <<XorBits(x[1], y[1], 16), XorBits(x[2], y[2], 16)>>
WAnd(x, y) == <<AndBits(x[1], y[1], 16), AndBits(x[2], y[2], 16)>>
WNot(x) == <<Half - 1 - x[1], Half - 1 - x[2]>>

\* x + y mod 2^32
WAdd(x, y) ==
    LET lo == x[2] + y[2]
        hi == x[1] + y[1] + (lo \div Half)
    IN  <<hi % Half, lo % Half>>

\* bits.RotateLeft32(x, -n), 0 < n < 32
RotR(x, n) ==
    LET sw == IF n >= 16 THEN <<x[2], x[1]>> ELSE x
        m  == n % 16
        p  == Pow2(m)
        q  == Pow2(16 - m)
    IN  IF m = 0 THEN sw
        ELSE <<(sw[1] \div p) + ((sw[2] % p) * q),
               (sw[2] \div p) + ((sw[1] % p) * q)>>

\* x >> n, 0 < n < 16
ShR(x, n) ==
    LET p == Pow2(n)
        q == Pow2(16 - n)
    IN  <<x[1] \div p, (x[2] \div p) + ((x[1] % p) * q)>>

(***************************************************************************)
(* crypto/sha256.Sum256 (FIPS 180-4), on a sequence of bytes.              *)
(***************************************************************************)
Sha256Init ==
    << <<27145, 58983>>, <<47975, 44677>>, <<15470, 62322>>, <<42319, 62778>>,
       <<20750, 21119>>, <<39685, 26764>>, <<8067, 55723>>, <<23520, 52505>> >>

Sha256K ==
    << <<17034, 12184>>, <<28983, 17553>>, <<46528, 64463>>, <<59829, 56229>>,
       <<14678, 49755>>, <<23025, 4593>>, <<37439, 33444>>, <<43804, 24277>>,
       <<55303, 43672>>, <<4739, 23297>>, <<9265, 34238>>, <<21772, 32195>>,
       <<29374, 23924>>, <<32990, 45566>>, <<39900, 1703>>, <<49563, 61812>>,
       <<58523, 27073>>, <<61374, 18310>>, <<4033, 40390>>, <<9228, 41420>>,
       <<11753, 11375>>, <<19060, 33962>>, <<23728, 43484>>, <<30457, 35034>>,
       <<38974, 20818>>, <<43057, 50797>>, <<45059, 10184>>, <<48985, 32711>>,
       <<50912, 3059>>, <<54695, 37191>>, <<1738, 25425>>, <<5161, 10599>>,
       <<10167, 2693>>, <<11803, 8504>>, <<19756, 28156>>, <<21304, 3347>>,
       <<25866, 29524>>, <<30314, 2747>>, <<33218, 51502>>, <<37490, 11397>>,
       <<41663, 59553>>, <<43034, 26187>>, <<49739, 35696>>, <<51052, 20899>>,
       <<53650, 59417>>, <<54937, 1572>>, <<62478, 13701>>, <<4202, 41072>>,
       <<6564, 49430>>, <<7735, 27656>>, <<10056, 30540>>, <<13488, 48309>>,
       <<14620, 3251>>, <<20184, 43594>>, <<23452, 51791>>, <<26670, 28659>>,
       <<29839, 33518>>, <<30885, 25455>>, <<33992, 30740>>, <<36039, 520>>,
       <<37054, 65530>>, <<42064, 27883>>, <<48889, 41975>>, <<50801, 30962>> >>

\* The message, a 0x80 byte, zero bytes up to 56 mod 64, then the bit length
\* as a 64-bit big-endian number (the lengths here fit its last two bytes...
\* three bytes are written)
RECURSIVE Zeros(_)
Zeros(n) == IF n = 0 THEN <<>> ELSE <<0>> \o Zeros(n - 1)

Sha256Pad(msg) ==
    LET n    == Len(msg)
        bits == 8 * n
        z    == (119 - n) % 64
    IN  msg \o <<128>> \o Zeros(z) \o Zeros(5)
            \o <<(bits \div 65536) % 256, (bits \div 256) % 256, bits % 256>>

\* The sixteen big-endian words of block b (0-based) of the padded message
BlockWords(p, b) ==
    [t \in 1..16 |->
        LET o == (64 * b) + (4 * (t - 1))
        IN  <<(p[o + 1] * 256) + p[o + 2], (p[o + 3] * 256) + p[o + 4]>>]

SmallSigma0(x) == WXor(WXor(RotR(x, 7), RotR(x, 18)), ShR(x, 3))
SmallSigma1(x) == WXor(WXor(RotR(x, 17), RotR(x, 19)), ShR(x, 10))
BigSigma0(x) == WXor(WXor(RotR(x, 2), RotR(x, 13)), RotR(x, 22))
BigSigma1(x) == WXor(WXor(RotR(x, 6), RotR(x, 11)), RotR(x, 25))
Ch(x, y, z) == WXor(WAnd(x, y), WAnd(WNot(x), z))
Maj(x, y, z) == WXor(WXor(WAnd(x, y), WAnd(x, z)), WAnd(y, z))

\* The message schedule: w extended from 16 to 64 words
RECURSIVE Schedule(_)
Schedule(w) ==
    IF Len(w) = 64 THEN w
    ELSE LET t == Len(w) + 1
             x == WAdd(WAdd(SmallSigma1(w[t - 2]), w[t - 7]),
                       WAdd(SmallSigma0(w[t - 15]), w[t - 16]))
         IN  Schedule(Append(w, x))

\* Rounds t..64 on the working variables s = <<a, b, c, d, e, f, g, h>>
RECURSIVE Rounds(_, _, _)
Rounds(s, w, t) ==
    IF t > 64 THEN s
    ELSE LET t1 == WAdd(WAdd(WAdd(s[8], BigSigma1(s[5])),
                             WAdd(Ch(s[5], s[6], s[7]), Sha256K[t])), w[t])
             t2 == WAdd(BigSigma0(s[1]), Maj(s[1], s[2], s[3]))
             ns == <<WAdd(t1, t2), s[1], s[2], s[3],
                     WAdd(s[4], t1), s[5], s[6], s[7]>>
         \* (the test makes TLC compute ns before the next round)
         IN  IF Len(ns) = 8 THEN Rounds(ns, w, t + 1) ELSE ns

RECURSIVE Sha256Blocks(_, _, _)
Sha256Blocks(h, p, b) ==
    IF 64 * b >= Len(p) THEN h
    ELSE LET s == Rounds(h, Schedule(BlockWords(p, b)), 1)
         IN  Sha256Blocks([i \in 1..8 |-> WAdd(h[i], s[i])], p, b + 1)

\* The 32 digest bytes
Sum256(msg) ==
    LET h == Sha256Blocks(Sha256Init, Sha256Pad(msg), 0)
    IN  [i \in 1..32 |->
            LET w == h[((i - 1) \div 4) + 1]
                k == (i - 1) % 4
            IN  IF k = 0 THEN w[1] \div 256
                ELSE IF k = 1 THEN w[1] % 256
                ELSE IF k = 2 THEN w[2] \div 256
                ELSE w[2] % 256]

(***************************************************************************)
(* encoding/base64: EncodeToString of the URL-safe alphabet, with the      *)
(* padding character pad, or with none (pad = "").                         *)
(***************************************************************************)
encodeURL ==
    << "A", "B", "C", "D", "E", "F", "G", "H", "I", "J", "K", "L", "M",
       "N", "O", "P", "Q", "R", "S", "T", "U", "V", "W", "X", "Y", "Z",
       "a", "b", "c", "d", "e", "f", "g", "h", "i", "j", "k", "l", "m",
       "n", "o", "p", "q", "r", "s", "t", "u", "v", "w", "x", "y", "z",
       "0", "1", "2", "3", "4", "5", "6", "7", "8", "9", "-", "_" >>

NoPadding == ""

RECURSIVE EncodeToString(_, _, _)
EncodeToString(alphabet, pad, src) ==
    LET n == Len(src)
    IN  IF n = 0 THEN ""
        ELSE IF n >= 3 THEN
            alphabet[(src[1] \div 4) + 1]
              \o alphabet[((src[1] % 4) * 16 + (src[2] \div 16)) + 1]
              \o alphabet[((src[2] % 16) * 4 + (src[3] \div 64)) + 1]
              \o alphabet[(src[3] % 64) + 1]
              \o EncodeToString(alphabet, pad, SubSeq(src, 4, n))
        ELSE IF n = 2 THEN
            alphabet[(src[1] \div 4) + 1]
              \o alphabet[((src[1] % 4) * 16 + (src[2] \div 16)) + 1]
              \o alphabet[((src[2] % 16) * 4) + 1]
              \o pad
        ELSE
            alphabet[(src[1] \div 4) + 1]
              \o alphabet[((src[1] % 4) * 16) + 1]
              \o pad \o pad

(***************************************************************************)
(* The strings the model draws its inputs from, and []byte(s) for those    *)
(* that are hashed (their ASCII codes).                                    *)
(***************************************************************************)
VerifierRFC == "dBjftJeZ4CVP-mB92K27uhbUJU1p1r_wW1gFWFOEjXk"
ChallengeRFC == "E9Melhoa2OwvFrEMTJguCHaoeK1t8URWbuGJSstw-cM"

StringBytes ==
    (VerifierRFC :>
        <<100, 66, 106, 102, 116, 74, 101, 90, 52, 67, 86, 80, 45, 109, 66,
          57, 50, 75, 50, 55, 117, 104, 98, 85, 74, 85, 49, 112, 49, 114, 95,
          119, 87, 49, 103, 70, 87, 70, 79, 69, 106, 88, 107>>)
    @@ ("wrong" :> <<119, 114, 111, 110, 103>>)
    @@ (ChallengeRFC :>
        <<69, 57, 77, 101, 108, 104, 111, 97, 50, 79, 119, 118, 70, 114, 69,
          77, 84, 74, 103, 117, 67, 72, 97, 111, 101, 75, 49, 116, 56, 85, 82,
          87, 98, 117, 71, 74, 83, 115, 116, 119, 45, 99, 77>>)
    @@ ("" :> <<>>)

VARIABLES
    sha256sum           \* sha256.Sum256([]byte(s)) of each string of StringBytes,
                        \* computed once, in Init, and never changed

Sha256Table == [s \in DOMAIN StringBytes |-> Sum256(StringBytes[s])]

(***************************************************************************)
(* AuthUseCase.validatePKCE                                                *)
(***************************************************************************)
\* (variant: the "plain" method is accepted too)
validatePKCEPlain(codeChallenge, codeVerifier, method) ==
    IF method = "plain" THEN codeChallenge = codeVerifier
    ELSE IF method # "S256" THEN FALSE
    ELSE LET hash == sha256sum[codeVerifier]
             expectedChallenge == EncodeToString(encodeURL, NoPadding, hash)
         IN  expectedChallenge = codeChallenge

validatePKCE(codeChallenge, codeVerifier, method) ==
    IF method # "S256" THEN FALSE
    ELSE LET hash == sha256sum[codeVerifier]
             expectedChallenge == EncodeToString(encodeURL, NoPadding, hash)
         IN  expectedChallenge = codeChallenge

(***************************************************************************)
(* Bounds of the model and the input sets.                                 *)
(***************************************************************************)
MaxCodes == 2       \* authorization codes issued in a run
MaxConcCodes == 1   \* codes issued in a run with concurrent exchanges
MaxAccounts == 2    \* accounts signed up in a run
NumProcs == 2       \* token requests in flight at once (SpecConc)
TickMinutes == 5    \* the clock advances in steps of this many minutes
MaxTime == 15       \* the clock stops here, in minutes
TicksPerSecond == 2 \* the instants of the clock within a second
MaxSkew == 2        \* instants after the mint, after a day and after seven
                    \* days that the clock of SpecJWE can be set to
MaxListed == 102    \* accounts stored when ListAccounts is exercised
MaxPermuted == 3    \* entries of a map whose every range order is taken
MaxSecretLen == 64  \* bytes of the longest JWE_SECRET of SpecKeys
MaxCacheSize == 2   \* the largest maxSize an InMemoryCache is made with
NumWorkers == 2     \* workers of the WorkerPool
QueueSize == 1      \* buffer of the pool's task queue and result channel
MaxTasks == 2       \* tasks submitted to the pool
NumStops == 2       \* callers of WorkerPool.Stop

\* 10 * time.Minute, in minutes
CodeTTL == 10
\* the length of base64.URLEncoding of the 32 bytes of a code
CodeLength == 44
\* the prefix of the code the token handler logs: code[:8]
CodePrefix == 8
\* 24 * time.Hour, in minutes
AccessTTL == 1440

\* ListAccounts: the default and the maximum limit
DefaultLimit == 10
MaxLimit == 100

\* The clock counts instants: a minute, and time.Time.Unix() of an instant
Minute == 60 * TicksPerSecond
Unix(t) == t \div TicksPerSecond
\* time.Unix(sec, 0)
FromUnix(sec) == sec * TicksPerSecond

Procs == 1..NumProcs
Codes == 1..MaxCodes
Emails == {"a@x", "b@x"}
NameOf == ("a@x" :> "A") @@ ("b@x" :> "B")
GoodPassword == "Passw0rd!"

VARIABLES
    now,                \* time.Now(), in instants of the clock
    accounts,           \* InMemoryAccountRepository.accounts: id -> Account
    idSeq,              \* the number of account ids IDGenerator has produced
    codeObjs,           \* the auth.AuthorizationCode objects, in creation
                        \* order: the k-th code string generated is k and
                        \* names object k
    authorizationCodes, \* AuthUseCase.authorizationCodes: the keys present
                        \* (key k maps to the pointer to codeObjs[k])
    exch,               \* per goroutine serving a token request: where it is
                        \* in ExchangeCodeForTokens, and its locals
    crashed,            \* the runtime ended the process (fatal error)
    lastExchange,       \* what the last token request to return answered
    minted,             \* per code: how many exchanges returned tokens
    matched,            \* codes for which an exchange with the recorded
                        \* client_id, redirect_uri and a fitting verifier
                        \* has been made
    issueLog,           \* per code: the credentials submitted at issue
    lastAuthorize,      \* the last authorization request and its response
    failures,           \* the credential failures answered by the
                        \* authorization endpoint, with their responses
    lastUserInfo,       \* the last UserInfo request and its response
    pkceIn,             \* SpecPKCE: the arguments of validatePKCE
    pkceOut,            \* SpecPKCE: its result
    signup,             \* per goroutine serving a signup request: where it
                        \* is in CreateAccount, and its locals
    lastSignup,         \* what the last signup request to return answered
    lastCreate,         \* what the last call of the repository's Create
                        \* returned
    hasher,             \* SpecHasher: the arguments of Hash and Compare,
                        \* and their results
    jwe,                \* SpecJWE: the pair GenerateTokenPair returned, the
                        \* tokens RevokeToken was called with, and the last
                        \* call of the token service with its result
    container,          \* the result of NewContainer: its error and the
                        \* account repository it holds
    lastList,           \* the last call of ListAccounts since the store
                        \* changed, and its result
    discovery,          \* the last request for the discovery document and
                        \* its response
    keys,               \* the result of NewJWETokenService: the two keys,
                        \* or the panic
    holder,             \* the Account object a caller of the repository
                        \* holds, and how it came by it
    tokenCache,         \* InMemoryCache.entries of the CachedTokenService,
                        \* and the last call of its ValidateToken
    pool                \* the WorkerPool, its goroutines and its callers

\* The state of the authorization server and its token service
coreVars == <<sha256sum, now, accounts, idSeq, codeObjs, authorizationCodes,
              exch, crashed, lastExchange, minted, matched, issueLog,
              lastAuthorize, failures, lastUserInfo, pkceIn, pkceOut,
              signup, lastSignup, lastCreate, lastList, hasher, jwe,
              container>>

\* The state of the infrastructure: discovery, key derivation, the callers
\* of the repository, the cache and the worker pool
infraVars == <<discovery, keys, holder, tokenCache, pool>>

vars == <<coreVars, infraVars>>

\* The state of the services around the authorization server
serviceVars == <<signup, lastSignup, lastList, hasher, jwe, container,
                 infraVars>>

(***************************************************************************)
(* BcryptPasswordHasher, over bcrypt of golang.org/x/crypto v0.39.0.  The  *)
(* Blowfish key schedule of bcrypt reads the password followed by a NUL    *)
(* byte cyclically, 72 bytes in all (18 words of the P-array): the hash is *)
(* a function of the salt, the cost and those 72 bytes.  A hash is written *)
(* as the 72 bytes; "" (an error of Hash) as the empty tuple.  The salt    *)
(* is left out: Compare takes it from the hash.                            *)
(***************************************************************************)
BcryptMaxPassword == 72
BcryptKeyBytes == 72

\* The passwords of the model and []byte(password)
LongPassword == "aaaaaaaa" \o "aaaaaaaa" \o "aaaaaaaa" \o "aaaaaaaa" \o "aaaaaaaa" \o "aaaaaaaa" \o "aaaaaaaa" \o "aaaaaaaa" \o "aaaaaaaa"
LongerPassword == LongPassword \o "b"

PasswordBytes ==
    ("" :> <<>>)
    @@ ("Passw0rd!" :> <<80, 97, 115, 115, 119, 48, 114, 100, 33>>)
    @@ ("wrong-pw1" :> <<119, 114, 111, 110, 103, 45, 112, 119, 49>>)
    @@ ("other-pw1" :> <<111, 116, 104, 101, 114, 45, 112, 119, 49>>)
    @@ ("short" :> <<115, 104, 111, 114, 116>>)
    @@ (LongPassword :> [i \in 1..72 |-> 97])
    @@ (LongerPassword :> [i \in 1..73 |-> IF i = 73 THEN 98 ELSE 97])

\* expensiveBlowfishSetup and blowfish.ExpandKey: the bytes of the key
\* that reach the P-array
BcryptKey(password) ==
    LET ckey == password \o <<0>>
    IN  [i \in 1..BcryptKeyBytes |-> ckey[((i - 1) % Len(ckey)) + 1]]

\* Hash: refused for the empty password, and by bcrypt for more than 72
\* bytes
Hash(password) ==
    LET bytes == PasswordBytes[password]
    IN  IF Len(bytes) = 0 THEN <<>>
        ELSE IF Len(bytes) > BcryptMaxPassword THEN <<>>
        ELSE <<"bcrypt", BcryptKey(bytes)>>

\* The error of Hash ("" for nil)
HashError(password) ==
    LET bytes == PasswordBytes[password]
    IN  IF Len(bytes) = 0 THEN "password cannot be empty"
        ELSE IF Len(bytes) > BcryptMaxPassword
        THEN "failed to hash password"
        ELSE ""

\* A string that is not a bcrypt hash
MalformedHash == <<"garbage">>

\* bcrypt.CompareHashAndPassword can read the hash
WellFormed(hashedPassword) ==
    Len(hashedPassword) = 2 /\ hashedPassword[1] = "bcrypt"

\* The error of Compare ("" for nil); the password's length is not
\* checked
CompareError(hashedPassword, password) ==
    IF Len(PasswordBytes[password]) = 0 \/ Len(hashedPassword) = 0
    THEN "password and hash cannot be empty"
    ELSE IF ~WellFormed(hashedPassword) THEN "invalid password"
    ELSE IF hashedPassword[2] = BcryptKey(PasswordBytes[password]) THEN ""
    ELSE "invalid password"

\* TRUE iff Compare returns nil
Compare(hashedPassword, password) == CompareError(hashedPassword, password) = ""

VerifyPassword(hashedPassword, password) == Compare(hashedPassword, password)

(***************************************************************************)
(* InMemoryAccountRepository                                               *)
(***************************************************************************)
\* GetByEmail: the ids of the stored accounts with this email (the loop
\* over the map returns the first it meets)
GetByEmail(email) == {id \in DOMAIN accounts : accounts[id].Email = email}

\* GetByID: TRUE iff the account is found
GetByIDFound(id) == id \in DOMAIN accounts


(***************************************************************************)
(* The state after construction (NewInMemoryAccountRepository,             *)
(* NewAuthUseCase): no accounts, no codes, no request in flight.           *)
(***************************************************************************)
NoAccount == [ID |-> 0, Email |-> "", Name |-> ""]
NoClaims == [sub |-> 0, email |-> "", name |-> "", exp |-> 0, nbf |-> 0,
             scope |-> ""]
NoTokens == [AccessToken |-> NoClaims, RefreshToken |-> NoClaims,
             TokenType |-> "", Scope |-> ""]
IdleProc == [pc |-> "idle", code |-> 0, clientID |-> "", codeVerifier |-> "",
             redirectURI |-> "", ctxDone |-> FALSE, authCode |-> 0,
             acc |-> NoAccount, late |-> FALSE, first |-> FALSE, used |-> FALSE]
NoExchange == [code |-> 0, err |-> "none", status |-> 0, error |-> "",
               tokens |-> NoTokens]
NoRequest == [method |-> "", response_type |-> "", client_id |-> "",
              redirect_uri |-> "", state |-> "", scope |-> "",
              code_challenge |-> "", code_challenge_method |-> "",
              email |-> "", password |-> ""]
NoResponse == [call |-> "", status |-> 0, error |-> "", description |-> "",
               location |-> <<>>, body |-> <<>>]
NoAuthorize == [req |-> NoRequest, ctxDone |-> FALSE, resp |-> NoResponse]
NoProfile == [ID |-> 0, Email |-> "", Name |-> ""]
NoUserInfo == [method |-> "", header |-> <<>>, query |-> NoClaims,
               ctx |-> "live", validated |-> FALSE, status |-> 0,
               error |-> "", profile |-> NoProfile]
NoSignupRequest == [method |-> "", json |-> FALSE, email |-> "",
                    password |-> "", name |-> ""]
BlankAccount == [ID |-> 0, Email |-> "", Password |-> <<>>, Name |-> "",
                 Blocked |-> FALSE]
IdleSignup == [pc |-> "idle", req |-> NoSignupRequest, ctxDone |-> FALSE,
               acc |-> BlankAccount]
NoSignup == [req |-> NoSignupRequest, status |-> 0, error |-> "",
             account_id |-> 0, stored |-> FALSE]
NoCreate == [acc |-> BlankAccount, ctxDone |-> FALSE, err |-> "none"]
NoList == [limit |-> 0, offset |-> 0, ctxDone |-> FALSE, stored |-> 0,
           err |-> "none", result |-> <<>>]
NoParsed == [Subject |-> 0, Email |-> "", Name |-> "", Scope |-> "",
             ExpiresAt |-> 0, NotBefore |-> 0]
NoCall == [op |-> "", token |-> NoClaims, ctxDone |-> FALSE, at |-> 0,
           err |-> "none", claims |-> NoParsed, tokens |-> NoTokens]
NoIdentity == [sub |-> 0, email |-> "", name |-> ""]
NoJwe == [pair |-> NoTokens, for |-> NoIdentity, mintedAt |-> 0,
          revoked |-> {}, call |-> NoCall]
NoContainer == [Driver |-> "", db |-> "", err |-> "none",
                AccountRepository |-> "nil"]
NoCompare == [hashedPassword |-> <<>>, password |-> "", err |-> "none"]
NoHasher == [password |-> "", other |-> "", hashed |-> <<>>,
             err |-> "none", compare |-> NoCompare]
\* The infrastructure before any call of it
NoDocument ==
    [issuer |-> "", authorization_endpoint |-> "", token_endpoint |-> "",
     response_types_supported |-> <<>>, grant_types_supported |-> <<>>,
     code_challenge_methods_supported |-> <<>>]
NoDiscovery == [method |-> "", tls |-> FALSE, status |-> 0, doc |-> NoDocument]
NoKeys == [secret |-> <<>>, err |-> "none", encryptionKey |-> <<>>, signingKey |-> <<>>]
NoHolder == [obj |-> BlankAccount, stored |-> 0, via |-> "none", last |-> "",
             err |-> "none"]
NoCacheCall == [token |-> NoClaims, ctxDone |-> FALSE, at |-> 0,
                err |-> "none", claims |-> NoParsed, hit |-> FALSE]
NoCache == [maxSize |-> 0, cacheTTL |-> 0, entries |-> <<>>,
            call |-> NoCacheCall]
NoSubmit == [id |-> 0, op |-> "", err |-> "none"]
NoResult == [TaskID |-> 0, Error |-> FALSE]
NoPool == [started |-> FALSE, taskQueue |-> <<>>, taskQueueClosed |-> FALSE,
           resultChan |-> <<>>, resultChanClosed |-> FALSE,
           ctxDone |-> FALSE, stopped |-> FALSE, taskClosed |-> FALSE,
           resultClosed |-> FALSE, wg |-> 0, ActiveWorkers |-> 0,
           TasksCompleted |-> 0, TasksFailed |-> 0,
           worker |-> <<>>, results |-> [pc |-> "", result |-> NoResult],
           stop |-> <<>>, submitted |-> 0, sub |-> NoSubmit, panic |-> ""]

NoPkce == [codeChallenge |-> "", codeVerifier |-> "", method |-> ""]

(***************************************************************************)
(* Container: NewContainer, initializeInfrastructure, initializeDatabase   *)
(* and initializeRepositories.  db tells how the database answers at       *)
(* startup: "ok", or the step of initializeDatabase that fails.            *)
(***************************************************************************)
DatabaseAnswers == {"ok", "create fails", "connect fails", "schema fails"}

\* initializeDatabase: TRUE iff c.Database is set
Database(driver, db) == driver = "postgres" /\ db = "ok"

\* initializeRepositories: the repository, or "nil" with the error returned
initializeRepositories(driver, db) ==
    IF driver = "memory"
    THEN [err |-> "", AccountRepository |-> "memory"]
    ELSE IF Database(driver, db)
    THEN [err |-> "", AccountRepository |-> "postgres"]
    ELSE [err |-> "database connection is required for PostgreSQL account repository",
          AccountRepository |-> "nil"]

\* NewContainer: the error of initializeDatabase is logged only; that of
\* initializeRepositories is returned
NewContainer(driver, db) ==
    LET repos == initializeRepositories(driver, db)
    IN  [Driver |-> driver, db |-> db,
         err |-> IF repos.err = "" THEN ""
                 ELSE "failed to initialize repositories: " \o repos.err,
         AccountRepository |-> repos.AccountRepository]

\* The container of a server started with the default configuration
DefaultContainer == NewContainer("memory", "ok")

\* The process starts: main calls NewContainer
Boot(driver, db) ==
    /\ container = NoContainer
    /\ container' = NewContainer(driver, db)
    /\ UNCHANGED <<sha256sum, infraVars,
                   signup, lastSignup, lastList, hasher, jwe,
                   lastCreate, now, accounts, idSeq, codeObjs,
                   authorizationCodes, exch, crashed, lastExchange, minted,
                   matched, issueLog, lastAuthorize, failures, lastUserInfo,
                   pkceIn, pkceOut>>

InitServer ==
    /\ sha256sum = Sha256Table
    /\ now = 0
    /\ accounts = <<>>
    /\ idSeq = 0
    /\ codeObjs = <<>>
    /\ authorizationCodes = <<>>
    /\ exch = [p \in Procs |-> IdleProc]
    /\ crashed = FALSE
    /\ lastExchange = NoExchange
    /\ minted = [c \in Codes |-> 0]
    /\ matched = {}
    /\ issueLog = <<>>
    /\ lastAuthorize = NoAuthorize
    /\ failures = {}
    /\ lastUserInfo = NoUserInfo
    /\ signup = [p \in Procs |-> IdleSignup]
    /\ lastSignup = NoSignup
    /\ lastCreate = NoCreate
    /\ lastList = NoList
    /\ jwe = NoJwe
    /\ discovery = NoDiscovery
    /\ keys = NoKeys
    /\ holder = NoHolder
    /\ tokenCache = NoCache
    /\ pool = NoPool

Init ==
    /\ InitServer
    /\ pkceIn = NoPkce
    /\ pkceOut = "none"
    /\ hasher = NoHasher
    /\ container = DefaultContainer

\* time passes
Tick ==
    /\ ~crashed
    /\ now + (TickMinutes * Minute) <= MaxTime * Minute
    /\ now' = now + (TickMinutes * Minute)
    /\ UNCHANGED <<sha256sum, serviceVars, lastCreate,
                   accounts, idSeq, codeObjs, authorizationCodes,
                   exch, crashed, lastExchange, minted, matched, issueLog,
                   lastAuthorize, failures, lastUserInfo, pkceIn, pkceOut>>

(***************************************************************************)
(* POST /dbconnections/signup: SignupHandler, AccountUseCase.CreateAccount *)
(* and InMemoryAccountRepository.Create.  The id is fresh (16 random       *)
(* bytes).                                                                 *)
(***************************************************************************)
SignupHandler(email, password, name) ==
    /\ ~crashed
    /\ idSeq < MaxAccounts
    /\ IF \/ email = "" \/ password = ""
          \/ Len(password) < 8
          \/ GetByEmail(email) # {}
       THEN UNCHANGED <<accounts, idSeq>>
       ELSE LET id == idSeq + 1
            IN  /\ idSeq' = id
                /\ accounts' = accounts @@
                      (id :> [ID |-> id, Email |-> email,
                              Password |-> Hash(password), Name |-> name,
                              Blocked |-> FALSE])
    /\ UNCHANGED <<sha256sum, serviceVars, lastCreate,
                   now, codeObjs, authorizationCodes, exch,
                   crashed, lastExchange, minted, matched, issueLog,
                   lastAuthorize, failures, lastUserInfo, pkceIn, pkceOut>>

(***************************************************************************)
(* GET and POST /authorize: AuthHandler.AuthorizeHandler                   *)
(***************************************************************************)
\* The validation of the OAuth parameters: the error code and description
\* handed to sendAuthorizationError, or "" when the request passes
\* (variant: the presence check runs before the response_type check)
AuthorizeValidationReordered(req) ==
    IF \/ req.client_id = "" \/ req.redirect_uri = ""
       \/ req.code_challenge = ""
    THEN <<"invalid_request",
           "client_id, redirect_uri, and code_challenge are required">>
    ELSE IF req.response_type # "code"
    THEN <<"unsupported_response_type",
           "Only 'code' response type is supported">>
    ELSE IF req.code_challenge_method # "S256"
    THEN <<"invalid_request", "code_challenge_method must be S256">>
    ELSE <<"", "">>

\* (variant: the challenge method is not checked)
AuthorizeValidationAnyMethod(req) ==
    IF req.response_type # "code"
    THEN <<"unsupported_response_type",
           "Only 'code' response type is supported">>
    ELSE IF \/ req.client_id = "" \/ req.redirect_uri = ""
            \/ req.code_challenge = ""
    THEN <<"invalid_request",
           "client_id, redirect_uri, and code_challenge are required">>
    ELSE <<"", "">>

AuthorizeValidation(req) ==
    IF req.response_type # "code"
    THEN <<"unsupported_response_type",
           "Only 'code' response type is supported">>
    ELSE IF \/ req.client_id = "" \/ req.redirect_uri = ""
            \/ req.code_challenge = ""
    THEN <<"invalid_request",
           "client_id, redirect_uri, and code_challenge are required">>
    ELSE IF req.code_challenge_method # "S256"
    THEN <<"invalid_request", "code_challenge_method must be S256">>
    ELSE <<"", "">>

sendError(code, description, status) ==
    [call |-> "sendError", status |-> status, error |-> code,
     description |-> description, location |-> <<>>,
     body |-> <<code, description>>]

\* With no redirect_uri the error goes out as a 400 JSON body.  With one,
\* http.Redirect is called with a nil *http.Request: net/http sets the
\* Location header and then reads r.Method (no Content-Type header is set
\* on w), so the handler panics before any status is written (status 0).
sendAuthorizationError(redirectURI, errorCode, errorDescription, state) ==
    IF redirectURI = ""
    THEN [call |-> "sendAuthorizationError", status |-> 400,
          error |-> errorCode, description |-> errorDescription,
          location |-> <<>>, body |-> <<errorCode, errorDescription>>]
    ELSE [call |-> "sendAuthorizationError", status |-> 0,
          error |-> errorCode, description |-> errorDescription,
          location |-> <<redirectURI, "?error=", errorCode,
                         "&error_description=", errorDescription>>
                        \o (IF state # "" THEN <<"&state=", state>>
                            ELSE <<>>),
          body |-> <<>>]

\* fmt.Sprintf: what each verb of the format writes.  A verb takes the next
\* operand; "s" writes it, another verb writes %!v(string=operand), and a
\* verb left without operand writes %!v(MISSING).
Sprintf(verbs, operands) ==
    [i \in 1..Len(verbs) |->
        IF i > Len(operands) THEN <<"%!", verbs[i], "(MISSING)">>
        ELSE IF verbs[i] = "s" THEN <<operands[i]>>
        ELSE <<"%!", verbs[i], "(string=", operands[i], ")">>]

\* The verbs of the login page: "%;" in the style sheet ("width: 100%;"),
\* then the two "%s" of the request summary and the six of the hidden
\* fields
LoginFormVerbs == <<";", "s", "s", "s", "s", "s", "s", "s", "s">>

renderLoginForm(clientID, redirectURI, state, scope, codeChallenge, codeChallengeMethod) ==
    [call |-> "renderLoginForm", status |-> 200, error |-> "",
     description |-> "", location |-> <<>>,
     body |-> Sprintf(LoginFormVerbs,
                      <<clientID, scope, clientID, redirectURI, state, scope,
                        codeChallenge, codeChallengeMethod>>)]

\* (variant: "&state=" is appended even when no state was supplied)
RedirectWithCodeAlwaysState(redirectURI, authCode, state) ==
    [call |-> "Redirect", status |-> 302, error |-> "", description |-> "",
     location |-> <<redirectURI, "?code=", authCode, "&state=", state>>,
     body |-> <<>>]

\* http.Redirect(w, r, redirectURI + "?code=" + authCode [+ "&state=" + state])
RedirectWithCode(redirectURI, authCode, state) ==
    [call |-> "Redirect", status |-> 302, error |-> "", description |-> "",
     location |-> <<redirectURI, "?code=", authCode>>
                    \o (IF state # "" THEN <<"&state=", state>> ELSE <<>>),
     body |-> <<>>]

\* (variant: the generator returns the same string every time)
NewCodeRepeated == CHOOSE c \in Codes : \A d \in Codes : c <= d

\* rand.Read of 32 bytes, base64: a code string never produced before
NewCode == Len(codeObjs) + 1

\* (variant: an email that failed before is refused)
AuthenticatedLockout(ctxDone, email, password) ==
    IF ctxDone THEN {[acct |-> 0, err |-> "context canceled"]}
    ELSE IF email = "" THEN {[acct |-> 0, err |-> "email is required"]}
    ELSE IF GetByEmail(email) = {} \/ \E f \in failures : f.email = email
    THEN {[acct |-> 0, err |-> "account not found"]}
    ELSE {IF VerifyPassword(accounts[id].Password, password)
          THEN [acct |-> id, err |-> ""]
          ELSE [acct |-> 0, err |-> "invalid credentials"] :
            id \in GetByEmail(email)}

\* AuthUseCase.CreateAuthorizationCode up to the password check: the
\* account the code is bound to, or the error returned (acct 0).  The
\* repository returns the first account of its map with the email.
Authenticated(ctxDone, email, password) ==
    IF ctxDone THEN {[acct |-> 0, err |-> "context canceled"]}
    ELSE IF email = "" THEN {[acct |-> 0, err |-> "email is required"]}
    ELSE IF GetByEmail(email) = {}
    THEN {[acct |-> 0, err |-> "account not found"]}
    ELSE {IF VerifyPassword(accounts[id].Password, password)
          THEN [acct |-> id, err |-> ""]
          ELSE [acct |-> 0, err |-> "invalid credentials"] :
            id \in GetByEmail(email)}

\* The form of the request, rendered again
LoginForm(req) ==
    renderLoginForm(req.client_id, req.redirect_uri, req.state, req.scope,
                    req.code_challenge, req.code_challenge_method)

\* (variant: an unknown account is reported as such)
OnAuthenticationErrorReveal(err, req) ==
    IF err = "account not found"
    THEN sendError("not_found", "Account not found", 404)
    ELSE LoginForm(req)

\* Lines 172-180: CreateAuthorizationCode returned err; it is logged and the
\* form is rendered again
OnAuthenticationError(err, req) == LoginForm(req)

\* What the handler answers, the account a code is issued for (0: none) and
\* the error of CreateAuthorizationCode ("": none, or not called)
AuthorizeOutcomes(req, ctxDone) ==
    LET v == AuthorizeValidation(req)
        form == [resp |-> LoginForm(req), acct |-> 0, err |-> ""]
    IN  IF req.method \notin {"GET", "POST"}
        THEN {[resp |-> sendError("method_not_allowed",
                                  "Method not allowed", 405),
               acct |-> 0, err |-> ""]}
        ELSE IF v[1] # ""
        THEN {[resp |-> sendAuthorizationError(req.redirect_uri, v[1], v[2],
                                               req.state),
               acct |-> 0, err |-> ""]}
        ELSE IF req.method = "GET" THEN {form}
        ELSE IF req.email = "" \/ req.password = "" THEN {form}
        ELSE {IF a.err # ""
              THEN [resp |-> OnAuthenticationError(a.err, req),
                    acct |-> 0, err |-> a.err]
              ELSE [resp |-> RedirectWithCode(req.redirect_uri, NewCode,
                                              req.state),
                    acct |-> a.acct, err |-> ""] :
                a \in Authenticated(ctxDone, req.email, req.password)}

\* The OAuth parameters of a request, without the credentials
OAuthParameters(req) ==
    <<req.method, req.response_type, req.client_id, req.redirect_uri,
      req.state, req.scope, req.code_challenge, req.code_challenge_method>>

\* record: what is kept of the request and the response: nothing
\* ("none"), the last ones in lastAuthorize ("last"), and the credential
\* failures in failures as well ("log")
AuthorizeHandler(req, ctxDone, record) ==
    /\ ~crashed
    /\ \E o \in AuthorizeOutcomes(req, ctxDone) :
        /\ IF o.acct = 0
           THEN UNCHANGED <<codeObjs, authorizationCodes, issueLog>>
           ELSE /\ Len(codeObjs) < MaxCodes
                /\ codeObjs' = Append(codeObjs,
                      [Code |-> NewCode,
                       ClientID |-> req.client_id,
                       RedirectURI |-> req.redirect_uri,
                       Scope |-> req.scope,
                       AccountID |-> o.acct,
                       CodeChallenge |-> req.code_challenge,
                       CodeChallengeMethod |-> req.code_challenge_method,
                       ExpiresAt |-> now + (CodeTTL * Minute),
                       Used |-> FALSE])
                /\ authorizationCodes' =
                      [k \in DOMAIN authorizationCodes \cup {NewCode} |->
                          IF k = NewCode THEN Len(codeObjs) + 1
                          ELSE authorizationCodes[k]]
                /\ issueLog' = Append(issueLog,
                      [code |-> NewCode, time |-> now, req |-> req,
                       failed |-> \E f \in failures :
                                     /\ f.email = req.email
                                     /\ f.err = "invalid credentials"])
        /\ lastAuthorize' = IF record # "none"
                            THEN [req |-> req, ctxDone |-> ctxDone,
                                  resp |-> o.resp]
                            ELSE NoAuthorize
        /\ failures' =
              IF record = "log" /\ o.err \in {"account not found",
                                      "invalid credentials"}
              THEN failures \cup {[params |-> OAuthParameters(req),
                                   email |-> req.email, err |-> o.err,
                                   resp |-> o.resp]}
              ELSE failures
    /\ UNCHANGED <<sha256sum, serviceVars, lastCreate,
                   now, accounts, idSeq, exch, crashed,
                   lastExchange, minted, matched, lastUserInfo,
                   pkceIn, pkceOut>>

(***************************************************************************)
(* JWETokenService.GenerateTokenPair: a token is the encryption of its     *)
(* signed claims, written here as the claims that createEncryptedToken     *)
(* writes: exp and nbf are Unix seconds, and scope is written only when it *)
(* is not empty ("" stands for the absent key).  Claims are auth.Claims,   *)
(* whose times are instants.                                               *)
(***************************************************************************)
createEncryptedToken(claims) ==
    [sub |-> claims.Subject, email |-> claims.Email, name |-> claims.Name,
     exp |-> Unix(claims.ExpiresAt), nbf |-> Unix(claims.NotBefore),
     scope |-> claims.Scope]

GenerateTokenPair(userID, email, name) ==
    [AccessToken |-> createEncryptedToken(
         [Subject |-> userID, Email |-> email, Name |-> name,
          Scope |-> "openid profile email",
          ExpiresAt |-> now + (AccessTTL * Minute), NotBefore |-> now]),
     RefreshToken |-> createEncryptedToken(
         [Subject |-> userID, Email |-> email, Name |-> name, Scope |-> "",
          ExpiresAt |-> now + (7 * (AccessTTL * Minute)),
          NotBefore |-> now]),
     TokenType |-> "Bearer",
     Scope |-> "openid profile email"]

(***************************************************************************)
(* POST /oauth/token, grant_type=authorization_code:                       *)
(* AuthHandler.handleAuthorizationCodeGrant and                            *)
(* AuthUseCase.ExchangeCodeForTokens, one action per access to the shared  *)
(* map and objects.  The labels are the line numbers of the statements.    *)
(***************************************************************************)
\* The reference S256 transform of the verifiers of the model (RFC 7636,
\* appendix B, and the same transform of "wrong")
S256Reference ==
    (VerifierRFC :> ChallengeRFC)
    @@ ("wrong" :> "iBCtWB5Z8rw5KLJhcHpxMI9-E56wSCA2bcTVwY2YAiU")
    @@ (ChallengeRFC :> "DSmbHrVIcI0EU05-BQxCe1bt-hXRNjejSEvdYbq_g4Q")
    @@ ("" :> "47DEQpj8HBSa-_TImW-5JCeuQeRkm5NMpJWZG3hSuFU")

\* The request carries the values bound to the code at issue
Matches(obj, clientID, codeVerifier, redirectURI) ==
    /\ obj.ClientID = clientID
    /\ obj.RedirectURI = redirectURI
    /\ obj.CodeChallenge = S256Reference[codeVerifier]

\* delete(m, k)
MapDelete(m, k) == [x \in DOMAIN m \ {k} |-> m[x]]

\* (variant: the expiry check never fires)
IsExpiredNever(obj) == FALSE

\* time.Now().After(authCode.ExpiresAt)
IsExpired(obj) == now > obj.ExpiresAt

\* (variant: the used-flag is not looked at)
AlreadyUsedIgnored(obj) == FALSE

\* if authCode.Used
AlreadyUsed(obj) == obj.Used

\* (variant: the redirect URI is compared up to a trailing slash)
ExchangeChecksSlash(obj, clientID, codeVerifier, redirectURI) ==
    IF obj.ClientID # clientID THEN "invalid client ID"
    ELSE IF obj.RedirectURI # redirectURI
            /\ obj.RedirectURI \o "/" # redirectURI
    THEN "invalid redirect URI"
    ELSE IF ~validatePKCE(obj.CodeChallenge, codeVerifier,
                          obj.CodeChallengeMethod)
    THEN "PKCE validation failed"
    ELSE ""

\* Lines 168-181: the error of the first check that fails, or ""
ExchangeChecks(obj, clientID, codeVerifier, redirectURI) ==
    IF obj.ClientID # clientID THEN "invalid client ID"
    ELSE IF obj.RedirectURI # redirectURI THEN "invalid redirect URI"
    ELSE IF ~validatePKCE(obj.CodeChallenge, codeVerifier,
                          obj.CodeChallengeMethod)
    THEN "PKCE validation failed"
    ELSE ""

\* The handler's answer: 200 with the token pair, or 401 invalid_grant
ExchangeResponse(code, err, tokens) ==
    [code |-> code, err |-> err,
     status |-> IF err = "" THEN 200 ELSE 401,
     error |-> IF err = "" THEN "" ELSE "invalid_grant",
     tokens |-> tokens]

\* ExchangeCodeForTokens returns err to the handler, which answers
ReturnError(p, err) ==
    /\ exch' = [exch EXCEPT ![p] = IdleProc]
    /\ lastExchange' = ExchangeResponse(exch[p].code, err, NoTokens)
    /\ UNCHANGED minted

\* The code strings a client can send: the empty one, the issued ones
\* (Codes), one shorter than the prefix the handler logs, and one of the
\* issued length that was never issued
NoCode == 0
ShortCode == MaxCodes + 1
UnknownCode == MaxCodes + 2

\* len(code): base64.URLEncoding of 32 bytes for an issued code
CodeBytes(code) ==
    IF code = NoCode THEN 0 ELSE IF code = ShortCode THEN 3 ELSE CodeLength

\* A required form value is absent
MissingParameter(code, clientID, codeVerifier) ==
    code = NoCode \/ clientID = "" \/ codeVerifier = ""

\* An answer of the token endpoint that is not that of an exchange
TokenAnswer(code, err, status, error, tokens) ==
    [code |-> code, err |-> err, status |-> status, error |-> error,
     tokens |-> tokens]

\* handleAuthorizationCodeGrant: the handler reads the form, logs
\* code[:8] (a slice out of range for a shorter code: the handler panics
\* and writes no answer, status 0) and calls ExchangeCodeForTokens
TokenRequest(p, code, clientID, codeVerifier, redirectURI) ==
    /\ ~crashed
    /\ exch[p].pc = "idle"
    /\ IF MissingParameter(code, clientID, codeVerifier)
       THEN /\ lastExchange' = TokenAnswer(code, "", 400, "invalid_request",
                                           NoTokens)
            /\ UNCHANGED <<exch, matched>>
       ELSE IF CodeBytes(code) < CodePrefix
       THEN /\ lastExchange' = TokenAnswer(code, "panic", 0, "", NoTokens)
            /\ UNCHANGED <<exch, matched>>
       ELSE LET known == code \in DOMAIN authorizationCodes
                obj == codeObjs[authorizationCodes[code]]
                fits == known /\ Matches(obj, clientID, codeVerifier,
                                         redirectURI)
            IN  /\ exch' = [exch EXCEPT ![p] =
                      [pc |-> "L146", code |-> code, clientID |-> clientID,
                       codeVerifier |-> codeVerifier,
                       redirectURI |-> redirectURI, ctxDone |-> FALSE,
                       authCode |-> 0, acc |-> NoAccount,
                       late |-> known /\ now > obj.ExpiresAt,
                       first |-> fits /\ code \notin matched
                                   /\ now <= obj.ExpiresAt,
                       used |-> known /\ obj.Used]]
                /\ matched' = IF fits THEN matched \cup {code} ELSE matched
                /\ lastExchange' = NoExchange
    /\ UNCHANGED <<sha256sum, serviceVars, lastCreate,
                   now, accounts, idSeq, codeObjs,
                   authorizationCodes, crashed, minted, issueLog,
                   lastAuthorize, failures, lastUserInfo, pkceIn, pkceOut>>

\* The request's context (context.WithTimeout(r.Context(), h.timeout)) is
\* done: the deadline has passed or the client went away.  Only the checks
\* at lines 146, 187 and 193 read it.
Cancel(p) ==
    /\ ~crashed
    /\ exch[p].pc \in {"L146", "L187", "L193"}
    /\ ~exch[p].ctxDone
    /\ exch' = [exch EXCEPT ![p].ctxDone = TRUE]
    /\ UNCHANGED <<sha256sum, serviceVars, lastCreate,
                   now, accounts, idSeq, codeObjs,
                   authorizationCodes, crashed, lastExchange, minted,
                   matched, issueLog, lastAuthorize, failures, lastUserInfo, pkceIn, pkceOut>>

\* Lines 146-154: the context check and the map lookup
ExchangeL146(p) ==
    /\ ~crashed
    /\ exch[p].pc = "L146"
    /\ IF exch[p].ctxDone THEN ReturnError(p, "context canceled")
       ELSE IF exch[p].code \notin DOMAIN authorizationCodes
       THEN ReturnError(p, "invalid authorization code")
       ELSE /\ exch' = [exch EXCEPT ![p].pc = "L157",
                   ![p].authCode = authorizationCodes[exch[p].code]]
            /\ UNCHANGED <<lastExchange, minted>>
    /\ UNCHANGED <<sha256sum, serviceVars, lastCreate,
                   now, accounts, idSeq, codeObjs,
                   authorizationCodes, crashed, matched, issueLog,
                   lastAuthorize, failures, lastUserInfo, pkceIn, pkceOut>>

\* Lines 156-160: the expiry check
ExchangeL157(p) ==
    /\ ~crashed
    /\ exch[p].pc = "L157"
    /\ IF IsExpired(codeObjs[exch[p].authCode])
       THEN /\ authorizationCodes' =
                  MapDelete(authorizationCodes, exch[p].code)
            /\ ReturnError(p, "authorization code expired")
       ELSE /\ exch' = [exch EXCEPT ![p].pc = "L163"]
            /\ UNCHANGED <<authorizationCodes, lastExchange, minted>>
    /\ UNCHANGED <<sha256sum, serviceVars, lastCreate,
                   now, accounts, idSeq, codeObjs, crashed,
                   matched, issueLog, lastAuthorize, failures, lastUserInfo, pkceIn, pkceOut>>

\* Lines 162-166: the one-time-use check
ExchangeL163(p) ==
    /\ ~crashed
    /\ exch[p].pc = "L163"
    /\ IF AlreadyUsed(codeObjs[exch[p].authCode])
       THEN /\ authorizationCodes' =
                  MapDelete(authorizationCodes, exch[p].code)
            /\ ReturnError(p, "authorization code already used")
       ELSE /\ exch' = [exch EXCEPT ![p].pc = "L169"]
            /\ UNCHANGED <<authorizationCodes, lastExchange, minted>>
    /\ UNCHANGED <<sha256sum, serviceVars, lastCreate,
                   now, accounts, idSeq, codeObjs, crashed,
                   matched, issueLog, lastAuthorize, failures, lastUserInfo, pkceIn, pkceOut>>

\* Lines 168-184: the client, redirect URI and PKCE checks, then
\* authCode.Used = true
ExchangeL169(p) ==
    /\ ~crashed
    /\ exch[p].pc = "L169"
    /\ LET err == ExchangeChecks(codeObjs[exch[p].authCode],
                                 exch[p].clientID, exch[p].codeVerifier,
                                 exch[p].redirectURI)
       IN  IF err # ""
           THEN /\ ReturnError(p, err)
                /\ UNCHANGED codeObjs
           ELSE /\ codeObjs' = [codeObjs EXCEPT
                                   ![exch[p].authCode].Used = TRUE]
                /\ exch' = [exch EXCEPT ![p].pc = "L187"]
                /\ UNCHANGED <<lastExchange, minted>>
    /\ UNCHANGED <<sha256sum, serviceVars, lastCreate,
                   now, accounts, idSeq, authorizationCodes,
                   crashed, matched, issueLog, lastAuthorize, failures, lastUserInfo, pkceIn,
                   pkceOut>>

\* (variant: the account loaded is the first one registered)
AccountToLoadFirst(obj) == IF obj.AccountID > 1 THEN 1 ELSE obj.AccountID

\* The id GetAccount is called with
AccountToLoad(obj) == obj.AccountID

\* Lines 186-190: AccountUseCase.GetAccount, which returns a copy
ExchangeL187(p) ==
    /\ ~crashed
    /\ exch[p].pc = "L187"
    /\ LET id == AccountToLoad(codeObjs[exch[p].authCode])
       IN  IF exch[p].ctxDone \/ ~GetByIDFound(id)
           THEN ReturnError(p, "failed to get account")
           ELSE /\ exch' = [exch EXCEPT ![p].pc = "L193",
                       ![p].acc = [ID |-> accounts[id].ID,
                                   Email |-> accounts[id].Email,
                                   Name |-> accounts[id].Name]]
                /\ UNCHANGED <<lastExchange, minted>>
    /\ UNCHANGED <<sha256sum, serviceVars, lastCreate,
                   now, accounts, idSeq, codeObjs,
                   authorizationCodes, crashed, matched, issueLog,
                   lastAuthorize, failures, lastUserInfo, pkceIn, pkceOut>>

\* Lines 192-201: GenerateTokenPair, the removal of the code, the answer
ExchangeL193(p) ==
    /\ ~crashed
    /\ exch[p].pc = "L193"
    /\ IF exch[p].ctxDone
       THEN /\ ReturnError(p, "failed to generate tokens")
            /\ UNCHANGED authorizationCodes
       ELSE /\ authorizationCodes' =
                  MapDelete(authorizationCodes, exch[p].code)
            /\ exch' = [exch EXCEPT ![p] = IdleProc]
            /\ lastExchange' = ExchangeResponse(exch[p].code, "",
                  GenerateTokenPair(exch[p].acc.ID, exch[p].acc.Email,
                                    exch[p].acc.Name))
            /\ minted' = [minted EXCEPT ![exch[p].code] = @ + 1]
    /\ UNCHANGED <<sha256sum, serviceVars, lastCreate,
                   now, accounts, idSeq, codeObjs, crashed,
                   matched, issueLog, lastAuthorize, failures, lastUserInfo, pkceIn, pkceOut>>

\* Two goroutines at statements that access the map at the same time, one
\* of them writing: the runtime may detect it and end the process ("fatal
\* error: concurrent map read and map write", "concurrent map writes")
MapAccess(p) ==
    CASE exch[p].pc = "L146" -> "read"
      [] exch[p].pc = "L157" /\ IsExpired(codeObjs[exch[p].authCode])
            -> "write"
      [] exch[p].pc = "L163" /\ AlreadyUsed(codeObjs[exch[p].authCode])
            -> "write"
      [] exch[p].pc = "L193" /\ ~exch[p].ctxDone -> "write"
      [] OTHER -> "none"

ConcurrentMapFault ==
    /\ ~crashed
    /\ \E p, q \in Procs :
        /\ p # q
        /\ MapAccess(p) = "write"
        /\ MapAccess(q) # "none"
    /\ crashed' = TRUE
    /\ UNCHANGED <<sha256sum, serviceVars, lastCreate,
                   now, accounts, idSeq, codeObjs,
                   authorizationCodes, exch, lastExchange, minted, matched,
                   issueLog, lastAuthorize, failures, lastUserInfo, pkceIn, pkceOut>>

(***************************************************************************)
(* POST /oauth/token: AuthHandler.TokenHandler, its dispatch on            *)
(* grant_type, and the refresh_token grant                                 *)
(***************************************************************************)
\* A token string that the server did not produce
GarbageToken == [NoClaims EXCEPT !.scope = "garbage"]

\* JWETokenService.ValidateToken: the error, "" when the token is valid.
\* Only a token the service encrypted and signed parses and verifies.
\* (variant: the not-before claim is not checked)
ValidateTokenErrorNoNbf(ctxDone, token) ==
    IF ctxDone THEN "context canceled"
    ELSE IF token.sub = 0 THEN "failed to parse JWE token"
    ELSE IF now > FromUnix(token.exp) THEN "token has expired"
    ELSE ""

\* (variant: a token RevokeToken was called with is refused)
ValidateTokenErrorRevoked(ctxDone, token) ==
    IF ctxDone THEN "context canceled"
    ELSE IF token.sub = 0 THEN "failed to parse JWE token"
    ELSE IF token \in jwe.revoked THEN "token revoked"
    ELSE IF now > FromUnix(token.exp) THEN "token has expired"
    ELSE IF now < FromUnix(token.nbf) THEN "token not yet valid"
    ELSE ""

ValidateTokenError(ctxDone, token) ==
    IF ctxDone THEN "context canceled"
    ELSE IF token.sub = 0 THEN "failed to parse JWE token"
    ELSE IF now > FromUnix(token.exp) THEN "token has expired"
    ELSE IF now < FromUnix(token.nbf) THEN "token not yet valid"
    ELSE ""

\* The other parts of the server a step of the token endpoint's own code
\* (outside ExchangeCodeForTokens) leaves alone
TokenFrame ==
    UNCHANGED <<sha256sum, serviceVars, lastCreate,
                now, accounts, idSeq, codeObjs,
                authorizationCodes, exch, crashed, minted, matched, issueLog,
                lastAuthorize, failures, lastUserInfo, pkceIn, pkceOut>>

\* handleRefreshToken, AuthUseCase.RefreshAuthentication and
\* JWETokenService.RefreshToken: the new pair is made from the claims of
\* the token presented
handleRefreshToken(refreshToken, ctxDone) ==
    /\ ~crashed
    /\ IF refreshToken = NoClaims
       THEN lastExchange' = TokenAnswer(NoCode, "", 400, "invalid_request",
                                        NoTokens)
       ELSE IF ValidateTokenError(ctxDone, refreshToken) # ""
       THEN lastExchange' = TokenAnswer(NoCode,
                                ValidateTokenError(ctxDone, refreshToken),
                                401, "invalid_grant", NoTokens)
       ELSE lastExchange' = TokenAnswer(NoCode, "", 200, "",
                                GenerateTokenPair(refreshToken.sub,
                                                  refreshToken.email,
                                                  refreshToken.name))
    /\ TokenFrame

(***************************************************************************)
(* The token service called on its own: JWETokenService.GenerateTokenPair, *)
(* ValidateToken, RefreshToken and RevokeToken, with the wall clock set    *)
(* between the calls                                                       *)
(***************************************************************************)
\* ValidateToken, lines 155-186: the claims read from the token
\* (variant: the scope is not read)
ValidateTokenClaimsNoScope(token) ==
    [Subject |-> token.sub, Email |-> token.email, Name |-> token.name,
     Scope |-> "", ExpiresAt |-> FromUnix(token.exp),
     NotBefore |-> FromUnix(token.nbf)]

ValidateTokenClaims(token) ==
    [Subject |-> token.sub, Email |-> token.email, Name |-> token.name,
     Scope |-> token.scope, ExpiresAt |-> FromUnix(token.exp),
     NotBefore |-> FromUnix(token.nbf)]

\* (variant: only a token without scope, a refresh token, is redeemed)
RefreshTokenErrorByKind(ctxDone, token) ==
    IF ctxDone THEN "context canceled"
    ELSE IF ValidateTokenError(ctxDone, token) # ""
    THEN "invalid refresh token: " \o ValidateTokenError(ctxDone, token)
    ELSE IF token.scope # "" THEN "invalid refresh token: not a refresh token"
    ELSE ""

\* RefreshToken: the error, "" when a new pair is returned
RefreshTokenError(ctxDone, token) ==
    IF ctxDone THEN "context canceled"
    ELSE IF ValidateTokenError(ctxDone, token) # ""
    THEN "invalid refresh token: " \o ValidateTokenError(ctxDone, token)
    ELSE ""

JweFrame ==
    UNCHANGED <<sha256sum, infraVars,
                signup, lastSignup, lastList, hasher, lastCreate,
                container, accounts, idSeq, codeObjs, authorizationCodes, exch, crashed,
                lastExchange, minted, matched, issueLog, lastAuthorize,
                failures, lastUserInfo, pkceIn, pkceOut>>

JweCall(op, token, ctxDone, err, claims, tokens) ==
    [op |-> op, token |-> token, ctxDone |-> ctxDone, at |-> now,
     err |-> err, claims |-> claims, tokens |-> tokens]

\* The wall clock is set, forward or back
SetClock(t) ==
    /\ t # now
    /\ now' = t
    /\ UNCHANGED jwe
    /\ JweFrame

\* GenerateTokenPair; the model keeps the first pair made
JweGenerate(ctxDone, userID, email, name) ==
    /\ jwe.pair = NoTokens
    /\ LET pair == IF ctxDone THEN NoTokens
                   ELSE GenerateTokenPair(userID, email, name)
       IN  jwe' = [jwe EXCEPT
                      !.pair = pair,
                      !.for = IF ctxDone THEN NoIdentity
                              ELSE [sub |-> userID, email |-> email,
                                    name |-> name],
                      !.mintedAt = IF ctxDone THEN 0 ELSE now,
                      !.call = JweCall("GenerateTokenPair", NoClaims, ctxDone,
                                       IF ctxDone THEN "context canceled"
                                       ELSE "", NoParsed, pair)]
    /\ UNCHANGED now
    /\ JweFrame

JweValidate(ctxDone, token) ==
    /\ LET err == ValidateTokenError(ctxDone, token)
       IN  jwe' = [jwe EXCEPT !.call =
                      JweCall("ValidateToken", token, ctxDone, err,
                              IF err = "" THEN ValidateTokenClaims(token)
                              ELSE NoParsed, NoTokens)]
    /\ UNCHANGED now
    /\ JweFrame

JweRefresh(ctxDone, token) ==
    /\ LET err == RefreshTokenError(ctxDone, token)
       IN  jwe' = [jwe EXCEPT !.call =
                      JweCall("RefreshToken", token, ctxDone, err, NoParsed,
                              IF err = ""
                              THEN GenerateTokenPair(token.sub, token.email,
                                                     token.name)
                              ELSE NoTokens)]
    /\ UNCHANGED now
    /\ JweFrame

\* RevokeToken returns nil; that it was called is kept for the properties
JweRevoke(ctxDone, token) ==
    /\ jwe' = [jwe EXCEPT !.revoked = @ \cup {token},
                          !.call = JweCall("RevokeToken", token, ctxDone, "",
                                           NoParsed, NoTokens)]
    /\ UNCHANGED now
    /\ JweFrame

\* The switch on grant_type
GrantDispatchPassword(grantType) ==
    IF grantType = "authorization_code" THEN "authorization_code"
    ELSE IF grantType \in {"refresh_token", "password"} THEN "refresh_token"
    ELSE "default"

GrantDispatch(grantType) ==
    IF grantType = "authorization_code" THEN "authorization_code"
    ELSE IF grantType = "refresh_token" THEN "refresh_token"
    ELSE "default"

TokenHandler(p, req, ctxDone) ==
    IF req.method # "POST"
    THEN /\ ~crashed
         /\ lastExchange' = TokenAnswer(NoCode, "", 405, "method_not_allowed",
                                        NoTokens)
         /\ TokenFrame
    ELSE IF GrantDispatch(req.grant_type) = "authorization_code"
    THEN TokenRequest(p, req.code, req.client_id, req.code_verifier,
                      req.redirect_uri)
    ELSE IF GrantDispatch(req.grant_type) = "refresh_token"
    THEN handleRefreshToken(req.refresh_token, ctxDone)
    ELSE /\ ~crashed
         /\ lastExchange' = TokenAnswer(NoCode, "", 400,
                                        "unsupported_grant_type", NoTokens)
         /\ TokenFrame

(***************************************************************************)
(* InMemoryAccountRepository: Create, Update and Delete, each under the    *)
(* repository's lock                                                       *)
(***************************************************************************)
RepoFrame ==
    UNCHANGED <<sha256sum, serviceVars,
                now, idSeq, codeObjs, authorizationCodes, exch,
                crashed, lastExchange, minted, matched, issueLog,
                lastAuthorize, failures, lastUserInfo, pkceIn, pkceOut>>

\* Create: the error it returns ("" for nil): the context's, or that of
\* an id or an email that is stored already
\* (variant: the loop over the stored emails is left out)
CreateErrorByID(ctxDone, acc) ==
    IF ctxDone THEN "context canceled"
    ELSE IF acc.ID \in DOMAIN accounts
    THEN "account with ID already exists"
    ELSE ""

CreateError(ctxDone, acc) ==
    IF ctxDone THEN "context canceled"
    ELSE IF acc.ID \in DOMAIN accounts
    THEN "account with ID already exists"
    ELSE IF \E id \in DOMAIN accounts : accounts[id].Email = acc.Email
    THEN "account with email already exists"
    ELSE ""

\* Create: the map it leaves; a copy of acc is stored when it returns nil
CreateStore(ctxDone, acc) ==
    IF CreateError(ctxDone, acc) # "" THEN accounts
    ELSE accounts @@ (acc.ID :> acc)

Create(ctxDone, acc) ==
    /\ ~crashed
    /\ accounts' = CreateStore(ctxDone, acc)
    /\ lastCreate' = [acc |-> acc, ctxDone |-> ctxDone,
                      err |-> CreateError(ctxDone, acc)]
    /\ RepoFrame

\* Update: the stored account with this id takes the fields of acc
Update(ctxDone, acc) ==
    /\ ~crashed
    /\ accounts' = IF ctxDone \/ acc.ID \notin DOMAIN accounts
                   THEN accounts
                   ELSE [accounts EXCEPT ![acc.ID] =
                            [ID |-> @.ID, Email |-> acc.Email,
                             Password |-> acc.Password, Name |-> acc.Name,
                             Blocked |-> acc.Blocked]]
    /\ UNCHANGED lastCreate
    /\ RepoFrame

Delete(ctxDone, id) ==
    /\ ~crashed
    /\ accounts' = IF ctxDone \/ id \notin DOMAIN accounts
                   THEN accounts
                   ELSE MapDelete(accounts, id)
    /\ UNCHANGED lastCreate
    /\ RepoFrame

(***************************************************************************)
(* POST /dbconnections/signup, one goroutine per request and one step per  *)
(* call that reads or writes the repository: AuthHandler.SignupHandler     *)
(* and AccountUseCase.CreateAccount.  The labels are the lines of          *)
(* CreateAccount.  An error is written as its message, without the values  *)
(* formatted into it.                                                      *)
(***************************************************************************)
\* CreateAccount, lines 33-49: the error of the context and of the input
\* validation, or "" when the call goes on
CreateAccountValidation(ctxDone, email, password) ==
    IF ctxDone THEN "context canceled"
    ELSE IF email = "" THEN "email is required"
    ELSE IF password = "" THEN "password is required"
    ELSE IF Len(password) < 8
    THEN "password must be at least 8 characters"
    ELSE ""

\* strings.Contains(err.Error(), "already exists")
AlreadyExists(err) ==
    err \in {"account with email already exists",
             "failed to create account: account with ID already exists",
             "failed to create account: account with email already exists"}

\* sendError and sendJSON of the signup handler
SignupAnswer(req, status, error, id, stored) ==
    [req |-> req, status |-> status, error |-> error, account_id |-> id,
     stored |-> stored]

\* The answer to an error of CreateAccount
SignupFailure(req, err) ==
    IF AlreadyExists(err)
    THEN SignupAnswer(req, 409, "account_exists", 0, FALSE)
    ELSE SignupAnswer(req, 500, "server_error", 0, FALSE)

SignupFrame ==
    UNCHANGED <<sha256sum, infraVars,
                lastList, hasher, jwe, container, now, codeObjs, authorizationCodes, exch, crashed,
                lastExchange, minted, matched, issueLog, lastAuthorize,
                failures, lastUserInfo, pkceIn, pkceOut>>

\* The goroutines inside CreateAccount
InSignup == {p \in Procs : signup[p].pc # "idle"}

\* SignupHandler up to the call of GetByEmail: the method, the body, the
\* presence of email and password, and the validation of CreateAccount.
\* Every goroutine let in can draw an id.
SignupRequest(p, req, ctxDone) ==
    /\ ~crashed
    /\ signup[p].pc = "idle"
    /\ idSeq + Cardinality(InSignup) < MaxAccounts
    /\ LET err == CreateAccountValidation(ctxDone, req.email, req.password)
           answer ==
               IF req.method # "POST"
               THEN SignupAnswer(req, 405, "method_not_allowed", 0, FALSE)
               ELSE IF ~req.json
               THEN SignupAnswer(req, 400, "invalid_request", 0, FALSE)
               ELSE IF req.email = "" \/ req.password = ""
               THEN SignupAnswer(req, 400, "invalid_request", 0, FALSE)
               ELSE IF err # "" THEN SignupFailure(req, err)
               ELSE NoSignup
       IN  IF answer # NoSignup
           THEN /\ lastSignup' = answer
                /\ UNCHANGED signup
           ELSE /\ signup' = [signup EXCEPT ![p] =
                      [pc |-> "L52", req |-> req, ctxDone |-> ctxDone,
                       acc |-> BlankAccount]]
                /\ UNCHANGED lastSignup
    /\ UNCHANGED <<accounts, idSeq, lastCreate>>
    /\ SignupFrame

\* The request's context ends (the handler's timeout, or the client gone)
SignupCancel(p) ==
    /\ ~crashed
    /\ signup[p].pc # "idle"
    /\ ~signup[p].ctxDone
    /\ signup' = [signup EXCEPT ![p].ctxDone = TRUE]
    /\ UNCHANGED <<accounts, idSeq, lastSignup, lastCreate>>
    /\ SignupFrame

\* Lines 52-55: GetByEmail; its error (the context's, or not found) lets
\* the call go on
SignupL52(p) ==
    /\ ~crashed
    /\ signup[p].pc = "L52"
    /\ IF ~signup[p].ctxDone /\ GetByEmail(signup[p].req.email) # {}
       THEN /\ lastSignup' = SignupFailure(signup[p].req,
                                 "account with email already exists")
            /\ signup' = [signup EXCEPT ![p] = IdleSignup]
       ELSE /\ signup' = [signup EXCEPT ![p].pc = "L58"]
            /\ UNCHANGED lastSignup
    /\ UNCHANGED <<accounts, idSeq, lastCreate>>
    /\ SignupFrame

\* Lines 58-79: the id, the hash and the new account
SignupL58(p) ==
    /\ ~crashed
    /\ signup[p].pc = "L58"
    /\ idSeq' = idSeq + 1
    /\ LET hashedPassword == Hash(signup[p].req.password)
       IN  IF hashedPassword = <<>>
           THEN /\ lastSignup' = SignupFailure(signup[p].req,
                                     "failed to hash password")
                /\ signup' = [signup EXCEPT ![p] = IdleSignup]
           ELSE /\ signup' = [signup EXCEPT
                      ![p].pc = "L82",
                      ![p].acc = [ID |-> idSeq + 1,
                                  Email |-> signup[p].req.email,
                                  Password |-> hashedPassword,
                                  Name |-> signup[p].req.name,
                                  Blocked |-> FALSE]]
                /\ UNCHANGED lastSignup
    /\ UNCHANGED <<accounts, lastCreate>>
    /\ SignupFrame

\* Lines 82-86 and the answer of the handler: Create
SignupL82(p) ==
    /\ ~crashed
    /\ signup[p].pc = "L82"
    /\ LET acc == signup[p].acc
           err == CreateError(signup[p].ctxDone, acc)
       IN  /\ accounts' = CreateStore(signup[p].ctxDone, acc)
           /\ lastCreate' = [acc |-> acc, ctxDone |-> signup[p].ctxDone,
                             err |-> err]
           /\ lastSignup' =
                  IF err # ""
                  THEN SignupFailure(signup[p].req,
                           "failed to create account: " \o err)
                  ELSE SignupAnswer(signup[p].req, 201, "", acc.ID, TRUE)
    /\ signup' = [signup EXCEPT ![p] = IdleSignup]
    /\ UNCHANGED idSeq
    /\ SignupFrame

(***************************************************************************)
(* AccountUseCase.ListAccounts and InMemoryAccountRepository.List.  An     *)
(* account of the result is written as its id.                             *)
(***************************************************************************)
\* ListAccounts, lines 169-174: the limit handed to the repository
EffectiveLimit(limit) ==
    IF limit <= 0 THEN DefaultLimit
    ELSE IF limit > MaxLimit THEN MaxLimit
    ELSE limit

\* ListAccounts, lines 175-177: the offset handed to the repository
\* (variant: a negative offset is handed on as it is)
EffectiveOffsetAsGiven(offset) == offset

EffectiveOffset(offset) == IF offset < 0 THEN 0 ELSE offset

\* The orders in which a range over the map can yield the stored ids: any
\* order; for a map of more than MaxPermuted entries the model takes the
\* ascending and the descending order only
MapOrders ==
    LET n == Cardinality(DOMAIN accounts)
    IN  IF n <= MaxPermuted
        THEN {s \in [1..n -> DOMAIN accounts] :
                 \A i, j \in 1..n : i # j => s[i] # s[j]}
        ELSE {[i \in 1..n |-> i], [i \in 1..n |-> (n + 1) - i]}

\* The slice expression s[start:end]; it panics unless
\* 0 <= start <= end <= len(s)
SliceInRange(s, start, end) == 0 <= start /\ start <= end /\ end <= Len(s)
Slice(s, start, end) == [i \in 1..(end - start) |-> s[start + i]]

\* InMemoryAccountRepository.List, lines 196-224, the range over the map
\* having yielded the ids in this order
List(order, limit, offset) ==
    LET start == IF offset > Len(order) THEN Len(order) ELSE offset
        end == IF start + limit > Len(order) THEN Len(order)
               ELSE start + limit
    IN  IF SliceInRange(order, start, end)
        THEN [err |-> "", result |-> Slice(order, start, end)]
        ELSE [err |-> "panic", result |-> <<>>]

\* AccountUseCase.ListAccounts
ListAccounts(ctxDone, order, limit, offset) ==
    /\ ~crashed
    /\ LET out == IF ctxDone
                  THEN [err |-> "context canceled", result |-> <<>>]
                  ELSE List(order, EffectiveLimit(limit),
                            EffectiveOffset(offset))
       IN  lastList' = [limit |-> limit, offset |-> offset,
                        ctxDone |-> ctxDone,
                        stored |-> Cardinality(DOMAIN accounts),
                        err |-> out.err, result |-> out.result]
    /\ UNCHANGED <<sha256sum, infraVars,
                   signup, lastSignup, lastCreate, hasher, jwe,
                   container, now, accounts, idSeq, codeObjs, authorizationCodes, exch, crashed,
                   lastExchange, minted, matched, issueLog, lastAuthorize,
                   failures, lastUserInfo, pkceIn, pkceOut>>

\* CreateAccount at the present instant for an email no account has, after
\* which the clock moves on: the account's id and created-at are those of
\* the instant.  The last list is that of the store as it is: it is
\* forgotten when the store changes.
CreateAccountAt(email) ==
    /\ ~crashed
    /\ LET acc == [ID |-> Cardinality(DOMAIN accounts) + 1, Email |-> email,
                   Password |-> Hash(GoodPassword), Name |-> "N",
                   Blocked |-> FALSE, CreatedAt |-> now]
       IN  /\ accounts' = CreateStore(FALSE, acc)
           /\ lastCreate' = [acc |-> acc, ctxDone |-> FALSE,
                             err |-> CreateError(FALSE, acc)]
    /\ now' = now + 1
    /\ lastList' = NoList
    /\ UNCHANGED <<sha256sum, infraVars,
                   signup, lastSignup, hasher, jwe, container,
                   idSeq, codeObjs, authorizationCodes, exch, crashed, lastExchange, minted,
                   matched, issueLog, lastAuthorize, failures, lastUserInfo,
                   pkceIn, pkceOut>>

(***************************************************************************)
(* GET /userinfo: AuthHandler.UserInfoHandler and                          *)
(* AuthUseCase.GetAccountProfile.  A header value is a sequence of pieces: *)
(* words, single spaces, and token strings (written as their claims).      *)
(***************************************************************************)
Chunk(s) == [s |-> s, t |-> NoClaims]
Space == Chunk(" ")
TokenChunk(token) == [s |-> "", t |-> token]

\* strings.Split(h, " "): the pieces between the spaces; n spaces give
\* n + 1 parts, empty ones included
RECURSIVE Split(_)
Split(h) ==
    IF h = <<>> THEN << <<>> >>
    ELSE LET rest == Split(Tail(h))
         IN  IF Head(h) = Space THEN << <<>> >> \o rest
             ELSE << <<Head(h)>> \o rest[1] >> \o Tail(rest)

\* The token string a part of the header is: the empty string, a token
\* string alone, or anything else (not a token the server made)
PartToken(part) ==
    IF part = <<>> THEN NoClaims
    ELSE IF Len(part) = 1 /\ part[1].s = "" THEN part[1].t
    ELSE GarbageToken

\* len(parts) != 2 || parts[0] != "Bearer"
BearerShapeAnyScheme(parts) == Len(parts) = 2

BearerShape(parts) == Len(parts) = 2 /\ parts[1] = <<Chunk("Bearer")>>

\* GetAccountProfile.  ctx says when the request's context is done: never
\* ("live"), before the call ("start"), or once the token is validated and
\* before the account is loaded ("load").  validated: the token reached
\* JWETokenService.ValidateToken.
GetAccountProfileFromClaims(ctx, token) ==
    IF ctx = "start"
    THEN [validated |-> FALSE, err |-> "context canceled",
          profile |-> NoProfile]
    ELSE IF token = NoClaims
    THEN [validated |-> FALSE, err |-> "token is required",
          profile |-> NoProfile]
    ELSE IF ValidateTokenError(FALSE, token) # ""
    THEN [validated |-> TRUE, err |-> ValidateTokenError(FALSE, token),
          profile |-> NoProfile]
    ELSE IF ctx = "load"
    THEN [validated |-> TRUE, err |-> "context canceled",
          profile |-> NoProfile]
    ELSE [validated |-> TRUE, err |-> "",
          profile |-> [ID |-> token.sub, Email |-> token.email,
                       Name |-> token.name]]

GetAccountProfile(ctx, token) ==
    IF ctx = "start"
    THEN [validated |-> FALSE, err |-> "context canceled",
          profile |-> NoProfile]
    ELSE IF token = NoClaims
    THEN [validated |-> FALSE, err |-> "token is required",
          profile |-> NoProfile]
    ELSE IF ValidateTokenError(FALSE, token) # ""
    THEN [validated |-> TRUE, err |-> ValidateTokenError(FALSE, token),
          profile |-> NoProfile]
    ELSE IF ctx = "load"
    THEN [validated |-> TRUE, err |-> "context canceled",
          profile |-> NoProfile]
    ELSE IF ~GetByIDFound(token.sub)
    THEN [validated |-> TRUE, err |-> "account not found",
          profile |-> NoProfile]
    ELSE [validated |-> TRUE, err |-> "",
          profile |-> [ID |-> accounts[token.sub].ID,
                       Email |-> accounts[token.sub].Email,
                       Name |-> accounts[token.sub].Name]]

\* What the handler answers
UserInfoAnswer(validated, status, error, profile) ==
    [validated |-> validated, status |-> status, error |-> error,
     profile |-> profile]

UserInfoResponse(req, ctx) ==
    IF req.method # "GET"
    THEN UserInfoAnswer(FALSE, 405, "method_not_allowed", NoProfile)
    ELSE IF req.header = <<>>
    THEN UserInfoAnswer(FALSE, 401, "unauthorized", NoProfile)
    ELSE IF ~BearerShape(Split(req.header))
    THEN UserInfoAnswer(FALSE, 401, "unauthorized", NoProfile)
    ELSE LET got == GetAccountProfile(ctx,
                                      PartToken(Split(req.header)[2]))
         IN  IF got.err # ""
             THEN UserInfoAnswer(got.validated, 401, "unauthorized",
                                 NoProfile)
             ELSE UserInfoAnswer(got.validated, 200, "", got.profile)

UserInfoHandler(req, ctx) ==
    /\ ~crashed
    /\ LET answer == UserInfoResponse(req, ctx)
       IN  lastUserInfo' = [method |-> req.method, header |-> req.header,
                            query |-> req.query, ctx |-> ctx,
                            validated |-> answer.validated,
                            status |-> answer.status,
                            error |-> answer.error,
                            profile |-> answer.profile]
    /\ UNCHANGED <<sha256sum, serviceVars, lastCreate,
                   now, accounts, idSeq, codeObjs,
                   authorizationCodes, exch, crashed, lastExchange, minted,
                   matched, issueLog, lastAuthorize, failures, pkceIn,
                   pkceOut>>

(***************************************************************************)
(* The requests drawn                                                      *)
(***************************************************************************)
FlowRequests ==
    [method : {"POST"}, response_type : {"code"}, client_id : {"c1"},
     redirect_uri : {"https://x/cb"}, state : {"s1"}, scope : {"openid"},
     code_challenge : {ChallengeRFC}, code_challenge_method : {"S256"},
     email : Emails, password : {GoodPassword, "wrong-pw1"}]

\* The exchanges drawn: the values bound at issue, and each of them wrong
TokenArgs ==
    {<<"c1", VerifierRFC, "https://x/cb">>,
     <<"c2", VerifierRFC, "https://x/cb">>,
     <<"c1", "wrong", "https://x/cb">>,
     <<"c1", "", "https://x/cb">>,
     <<"c1", VerifierRFC, "https://x/cb/">>}

AllIdle == \A q \in Procs : exch[q].pc = "idle"

Signup == \E e \in Emails : SignupHandler(e, GoodPassword, NameOf[e])

Authorize == \E r \in FlowRequests : AuthorizeHandler(r, FALSE, "none")

\* A token request arrives while none is being served
TokenRequestSeq ==
    /\ AllIdle
    /\ \E c \in Codes, a \in TokenArgs : TokenRequest(1, c, a[1], a[2], a[3])

CancelStep == \E p \in Procs : Cancel(p)

ExchangeStep ==
    \E p \in Procs :
        \/ ExchangeL146(p)
        \/ ExchangeL157(p)
        \/ ExchangeL163(p)
        \/ ExchangeL169(p)
        \/ ExchangeL187(p)
        \/ ExchangeL193(p)

\* The handlers run one at a time
Next ==
    \/ Tick
    \/ AllIdle /\ Signup
    \/ AllIdle /\ Authorize
    \/ TokenRequestSeq
    \/ CancelStep
    \/ ExchangeStep

Spec == Init /\ [][Next]_vars

(***************************************************************************)
(* Exchanges served by concurrent goroutines (net/http runs each request   *)
(* in its own goroutine; AuthUseCase has no lock)                          *)
(***************************************************************************)
ConcArgs ==
    {<<"c1", VerifierRFC, "https://x/cb">>,
     <<"c1", "wrong", "https://x/cb">>}

\* A request is served by the first goroutine that is free
TokenRequestConc ==
    \E p \in Procs, c \in Codes, a \in ConcArgs :
        /\ \A q \in Procs : q < p => exch[q].pc # "idle"
        /\ TokenRequest(p, c, a[1], a[2], a[3])

NextConc ==
    \/ Tick
    \/ AllIdle /\ Signup
    \/ AllIdle /\ Len(codeObjs) < MaxConcCodes /\ Authorize
    \/ TokenRequestConc
    \/ CancelStep
    \/ ExchangeStep
    \/ ConcurrentMapFault

SpecConc == Init /\ [][NextConc]_vars

(***************************************************************************)
(* The token endpoint with every kind of request, served one at a time     *)
(***************************************************************************)
\* The tokens a client holds: those of the last answer, and none
HeldTokens ==
    {lastExchange.tokens.RefreshToken, lastExchange.tokens.AccessToken,
     NoClaims, GarbageToken}

TokenRequests ==
    [method : {"POST"}, grant_type : {"authorization_code"},
     code : Codes \cup {NoCode, ShortCode, UnknownCode},
     client_id : {"c1", ""}, code_verifier : {VerifierRFC, "wrong", ""},
     redirect_uri : {"https://x/cb"}, refresh_token : {NoClaims}]
    \cup
    [method : {"POST"}, grant_type : {"refresh_token"}, code : {NoCode},
     client_id : {""}, code_verifier : {""}, redirect_uri : {""},
     refresh_token : HeldTokens]
    \cup
    [method : {"POST", "GET"},
     grant_type : {"authorization_code", "refresh_token", "password",
                   "implicit", "client_credentials", ""},
     code : {1}, client_id : {"c1"},
     code_verifier : {VerifierRFC}, redirect_uri : {"https://x/cb"},
     refresh_token : {lastExchange.tokens.RefreshToken}]

\* The request's context matters to the refresh grant only; that of an
\* exchange is the subject of Cancel
TokenAny ==
    /\ AllIdle
    /\ \E r \in TokenRequests :
           \E d \in (IF r.grant_type = "refresh_token" THEN BOOLEAN
                     ELSE {FALSE}) : TokenHandler(1, r, d)

\* Authorization requests that fail validation: the response type, the
\* client and the redirect URI wrong in turn
RejectedRequests ==
    [method : {"GET"}, response_type : {"token"}, client_id : {"c1"},
     redirect_uri : {"https://x/cb"}, state : {"s1"}, scope : {"openid"},
     code_challenge : {ChallengeRFC}, code_challenge_method : {"S256"},
     email : {""}, password : {""}]
    \cup
    [method : {"GET"}, response_type : {"code"}, client_id : {""},
     redirect_uri : {""}, state : {"s1"}, scope : {"openid"},
     code_challenge : {ChallengeRFC}, code_challenge_method : {"S256"},
     email : {""}, password : {""}]
    \cup
    [method : {"GET"}, response_type : {"code"}, client_id : {"c1"},
     redirect_uri : {""}, state : {"s1"}, scope : {"openid"},
     code_challenge : {ChallengeRFC}, code_challenge_method : {"S256"},
     email : {""}, password : {""}]

AuthorizeRejected ==
    \E r \in RejectedRequests : AuthorizeHandler(r, FALSE, "last")

NextToken ==
    \/ Tick
    \/ AllIdle /\ Signup
    \/ AllIdle /\ Len(codeObjs) < MaxConcCodes /\ Authorize
    \/ AllIdle /\ AuthorizeRejected
    \/ TokenAny
    \/ CancelStep
    \/ ExchangeStep

SpecToken == Init /\ [][NextToken]_vars

(***************************************************************************)
(* The UserInfo endpoint, with accounts edited and deleted after their     *)
(* tokens were made                                                        *)
(***************************************************************************)
\* The header values and the query strings a client sends, made of the
\* tokens it holds
UserInfoRequests ==
    LET access == TokenChunk(lastExchange.tokens.AccessToken)
        refresh == TokenChunk(lastExchange.tokens.RefreshToken)
    IN  [method : {"GET"},
         header : {<<Chunk("Bearer"), Space, access>>,
                   <<Chunk("Bearer"), Space, refresh>>,
                   <<Chunk("Bearer"), Space, TokenChunk(GarbageToken)>>,
                   <<Chunk("Bearer"), Space>>,
                   <<Chunk("Bearer"), Space, Space, access>>,
                   <<Chunk("Bearer"), access>>,
                   <<Chunk("bearer"), Space, access>>,
                   <<Chunk("Basic"), Space, access>>,
                   <<access>>,
                   <<>>},
         query : {NoClaims}]
        \cup
        [method : {"GET"}, header : {<<>>},
         query : {lastExchange.tokens.AccessToken}]
        \cup
        [method : {"POST"}, header : {<<Chunk("Bearer"), Space, access>>},
         query : {NoClaims}]

\* A client that holds tokens asks for the profile
UserInfoAny ==
    /\ lastExchange.tokens # NoTokens
    /\ \E r \in UserInfoRequests :
           \E c \in (IF r.method = "GET" /\ Len(r.header) = 3
                     THEN {"live", "start", "load"} ELSE {"live"}) :
               UserInfoHandler(r, c)

\* The exchange of an issued code with the values bound to it
TokenRequestGood ==
    /\ AllIdle
    /\ \E c \in Codes :
           TokenRequest(1, c, "c1", VerifierRFC, "https://x/cb")

\* The edits of a stored account
ProfileEdits ==
    {[ID |-> id, Email |-> e, Password |-> Hash(GoodPassword),
      Name |-> NameOf[e], Blocked |-> FALSE] :
        id \in 1..MaxAccounts, e \in Emails}

UpdateProfile == \E acc \in ProfileEdits : Update(FALSE, acc)

DeleteAccount == \E id \in 1..MaxAccounts : Delete(FALSE, id)

NextUserInfo ==
    \/ AllIdle /\ Signup
    \/ AllIdle /\ Len(codeObjs) < MaxConcCodes /\ Authorize
    \/ TokenRequestGood
    \/ ExchangeStep
    \/ AllIdle /\ UpdateProfile
    \/ AllIdle /\ DeleteAccount
    \/ UserInfoAny

SpecUserInfo == Init /\ [][NextUserInfo]_vars

(***************************************************************************)
(* The repository alone: any sequence of Create, Update and Delete         *)
(***************************************************************************)
RepoAccounts ==
    [ID : 1..MaxAccounts, Email : Emails,
     Password : {Hash(GoodPassword), Hash("other-pw1")},
     Name : {"A", "Z"}, Blocked : BOOLEAN]

CreateAny == \E d \in BOOLEAN, acc \in RepoAccounts : Create(d, acc)

UpdateAny == \E d \in BOOLEAN, acc \in RepoAccounts : Update(d, acc)

DeleteAny == \E d \in BOOLEAN, id \in 1..MaxAccounts : Delete(d, id)

NextRepo == CreateAny \/ UpdateAny \/ DeleteAny

SpecRepo == Init /\ [][NextRepo]_vars

(***************************************************************************)
(* The signup endpoint with every kind of request, served concurrently,    *)
(* next to a caller of the repository that creates under a stored id       *)
(***************************************************************************)
ShortPassword == "short"

SignupRequests ==
    [method : {"POST"}, json : {TRUE}, email : Emails,
     password : {ShortPassword, GoodPassword}, name : {"N"}]
    \cup [method : {"POST"}, json : {TRUE}, email : {"", "a@x"},
          password : {"", GoodPassword}, name : {"N"}]
    \cup [method : {"GET", "POST"}, json : BOOLEAN, email : {"a@x"},
          password : {GoodPassword}, name : {"N"}]

SignupAny ==
    \E p \in Procs, req \in SignupRequests, d \in BOOLEAN :
        SignupRequest(p, req, d)

SignupCancelStep == \E p \in Procs : SignupCancel(p)

SignupStep == \E p \in Procs : SignupL52(p) \/ SignupL58(p) \/ SignupL82(p)

CreateStored ==
    \E d \in BOOLEAN, id \in DOMAIN accounts, e \in Emails :
        Create(d, [ID |-> id, Email |-> e, Password |-> Hash(GoodPassword),
                   Name |-> "N", Blocked |-> FALSE])

NextSignup == SignupAny \/ SignupCancelStep \/ SignupStep \/ CreateStored

SpecSignup == Init /\ [][NextSignup]_vars

(***************************************************************************)
(* ListAccounts on a store that grows by one account per instant           *)
(***************************************************************************)
ListLimits == {0 - 5, 0, 2, 100, 101}
ListOffsets == {0 - 3, 0, 2, 101, 1000}

CreateNext ==
    /\ Cardinality(DOMAIN accounts) < MaxListed
    /\ CreateAccountAt("u" \o ToString(Cardinality(DOMAIN accounts) + 1))

ListAny ==
    \E d \in BOOLEAN, order \in MapOrders :
        \E limit \in ListLimits, offset \in ListOffsets :
            ListAccounts(d, order, limit, offset)

NextList == CreateNext \/ ListAny

SpecList == Init /\ [][NextList]_vars

(***************************************************************************)
(* The start of the process, under every driver and every answer of the    *)
(* database, and the signups, the logins and the passage of time that      *)
(* follow when the container holds the in-memory repository                *)
(***************************************************************************)
Drivers == {"memory", "postgres", "sqlite"}

InitBoot ==
    /\ InitServer
    /\ pkceIn = NoPkce
    /\ pkceOut = "none"
    /\ hasher = NoHasher
    /\ container = NoContainer

BootAny == \E driver \in Drivers, db \in DatabaseAnswers : Boot(driver, db)

Serving == container.err = "" /\ container.AccountRepository = "memory"

NextBoot ==
    \/ BootAny
    \/ Serving /\ Signup
    \/ Serving /\ Len(codeObjs) < MaxConcCodes /\ Authorize
    \/ Serving /\ Tick

SpecBoot == InitBoot /\ [][NextBoot]_vars

(***************************************************************************)
(* The token service alone: one pair is made, and its tokens, the empty    *)
(* string and a string the service did not make are validated, refreshed   *)
(* and revoked, at instants around the mint, a day later and seven days    *)
(* later                                                                   *)
(***************************************************************************)
Day == AccessTTL * Minute

JweInstants == {base + k : base \in {0, Day, 7 * Day}, k \in 0..MaxSkew}

JweIdentities ==
    {[sub |-> 1, email |-> "a@x", name |-> "A"],
     [sub |-> 2, email |-> "b@x", name |-> ""]}

\* The tokens of the pair (the empty string before the pair is made)
PairTokens == {jwe.pair.AccessToken, jwe.pair.RefreshToken}

JweTokens == PairTokens \cup {GarbageToken}

ClockAny == \E t \in JweInstants : SetClock(t)

GenerateAny ==
    \E d \in BOOLEAN, i \in JweIdentities :
        JweGenerate(d, i.sub, i.email, i.name)

ValidateAny == \E d \in BOOLEAN, token \in JweTokens : JweValidate(d, token)

RefreshAny == \E d \in BOOLEAN, token \in JweTokens : JweRefresh(d, token)

RevokeAny == \E d \in BOOLEAN, token \in PairTokens : JweRevoke(d, token)

NextJWE == ClockAny \/ GenerateAny \/ ValidateAny \/ RefreshAny \/ RevokeAny

SpecJWE == Init /\ [][NextJWE]_vars

(***************************************************************************)
(* The password hasher alone: Hash of a password, then Compare of some     *)
(* verifier string with that password or another                           *)
(***************************************************************************)
HasherPasswords == DOMAIN PasswordBytes

InitHasher ==
    /\ InitServer
    /\ pkceIn = NoPkce
    /\ pkceOut = "none"
    /\ container = DefaultContainer
    /\ hasher \in [password : HasherPasswords, other : HasherPasswords,
                    hashed : {<<>>}, err : {"none"}, compare : {NoCompare}]

HasherFrame ==
    UNCHANGED <<sha256sum, infraVars,
                signup, lastSignup, lastList, lastCreate, jwe,
                container, now,
                accounts, idSeq, codeObjs, authorizationCodes, exch, crashed,
                lastExchange, minted, matched, issueLog, lastAuthorize,
                failures, lastUserInfo, pkceIn, pkceOut>>

HashCall ==
    /\ hasher.err = "none"
    /\ hasher' = [hasher EXCEPT !.hashed = Hash(hasher.password),
                                !.err = HashError(hasher.password)]
    /\ HasherFrame

CompareCall(hashedPassword, password) ==
    /\ hasher.err # "none"
    /\ hasher' = [hasher EXCEPT !.compare =
                      [hashedPassword |-> hashedPassword,
                       password |-> password,
                       err |-> CompareError(hashedPassword, password)]]
    /\ HasherFrame

CompareAny ==
    \E hashedPassword \in {hasher.hashed, <<>>, MalformedHash} :
        \E password \in {hasher.password, hasher.other} :
            CompareCall(hashedPassword, password)

NextHasher == HashCall \/ CompareAny

SpecHasher == InitHasher /\ [][NextHasher]_vars

(***************************************************************************)
(* Properties of the code exchange                                         *)
(***************************************************************************)
\* The goroutine p returns from ExchangeCodeForTokens in this step
Returns(p) == exch[p].pc # "idle" /\ exch'[p].pc = "idle"

\* ... and it returns a token pair
ReturnsTokens(p) == Returns(p) /\ lastExchange'.tokens # NoTokens

\* The errors of the client, redirect URI and PKCE checks
CheckErrors ==
    {"invalid client ID", "invalid redirect URI", "PKCE validation failed"}

\* The account whose credentials were verified when object i was issued
IssuedFor(i) ==
    CHOOSE a \in DOMAIN accounts : accounts[a].Email = issueLog[i].req.email

\* C1: with the exchanges served one at a time, no code yields tokens more
\* than once: after an exchange of a code has returned tokens, every later
\* exchange of that code, whatever its parameters, returns an error.
C1_SingleRedemption == \A c \in Codes : minted[c] <= 1

\* A code was redeemed with the values recorded at issue
C6_Witness ==
    /\ lastExchange.tokens # NoTokens
    /\ lastExchange.code \notin DOMAIN authorizationCodes
    /\ codeObjs[lastExchange.code].RedirectURI = "https://x/cb"

\* A code has been redeemed and a later exchange of it has been refused
C1_Witness ==
    /\ lastExchange.err = "invalid authorization code"
    /\ minted[lastExchange.code] = 1

\* C2 (as stated): with concurrent exchanges of the same code, at most one
\* of them returns tokens.
C2_ConcurrentSingleRedemption == ~ \E c \in Codes : minted[c] >= 2

\* C3 (as stated): an exchange that fails the client, redirect URI or PKCE
\* check leaves no record of its code in the registry.
C3_FailedCheckRemovesCode ==
    lastExchange.err \in CheckErrors
        => lastExchange.code \notin DOMAIN authorizationCodes

\* C4: an exchange called when the used-flag of its code's record is set
\* never returns tokens, even if the exchange that set the flag failed
\* afterwards and returned an error.
C4_UsedNeverRedeemed ==
    [][\A p \in Procs : (exch[p].used /\ Returns(p))
            => lastExchange'.tokens = NoTokens]_vars

\* A record whose flag was set by an exchange that then failed is refused
C4_Witness ==
    /\ lastExchange.err = "authorization code already used"
    /\ minted[lastExchange.code] = 0

\* C5 (as stated): an exchange called after the record's ExpiresAt returns
\* an error, and the record is not in the registry when it returns.
C5_ExpiredRefusedAndRemoved ==
    [][\A p \in Procs : (exch[p].late /\ Returns(p))
            => /\ lastExchange'.tokens = NoTokens
               /\ exch[p].code \notin DOMAIN authorizationCodes']_vars

\* C5 (amended): every record expires CodeTTL minutes after its issue; an
\* exchange called after ExpiresAt returns an error, and unless its context
\* was already cancelled at the first check, the record is not in the
\* registry when it returns.
C5_ExpiredRefused ==
    /\ [](\A i \in 1..Len(codeObjs) :
            codeObjs[i].ExpiresAt = issueLog[i].time + (CodeTTL * Minute))
    /\ [][\A p \in Procs : (exch[p].late /\ Returns(p))
            => /\ lastExchange'.tokens = NoTokens
               /\ \/ exch[p].pc = "L146" /\ exch[p].ctxDone
                  \/ exch[p].code \notin DOMAIN authorizationCodes']_vars

\* An exchange of an expired code was refused and the record removed
C5_Witness ==
    /\ lastExchange.err = "authorization code expired"
    /\ lastExchange.code \notin DOMAIN authorizationCodes

\* C6: whenever an exchange returns tokens, its client_id and redirect_uri
\* are equal, as strings, to those recorded at issue and its verifier
\* hashes to the recorded challenge.
C6_TokensOnlyOnMatch ==
    [][\A p \in Procs : ReturnsTokens(p)
            => /\ exch[p].authCode \in 1..Len(codeObjs)
               /\ Matches(codeObjs[exch[p].authCode], exch[p].clientID,
                          exch[p].codeVerifier, exch[p].redirectURI)]_vars

PkceChallenges ==
    {ChallengeRFC, ChallengeRFC \o "=", VerifierRFC, "wrong", "",
     S256Reference["wrong"], S256Reference[""]}
PkceVerifiers == {VerifierRFC, "wrong", "", ChallengeRFC}
PkceMethods == {"S256", "plain", "", "s256"}

InitPKCE ==
    /\ InitServer
    /\ pkceIn \in [codeChallenge : PkceChallenges,
                   codeVerifier : PkceVerifiers, method : PkceMethods]
    /\ pkceOut = "none"
    /\ hasher = NoHasher
    /\ container = DefaultContainer

ValidatePKCECall ==
    /\ pkceOut = "none"
    /\ pkceOut' = IF validatePKCE(pkceIn.codeChallenge, pkceIn.codeVerifier,
                                  pkceIn.method)
                  THEN "true" ELSE "false"
    /\ UNCHANGED <<sha256sum, serviceVars, lastCreate,
                   now, accounts, idSeq, codeObjs,
                   authorizationCodes, exch, crashed, lastExchange, minted,
                   matched, issueLog, lastAuthorize, failures, lastUserInfo, pkceIn>>

SpecPKCE == InitPKCE /\ [][ValidatePKCECall]_vars

\* C7: validatePKCE(C, V, M) is true exactly when M is "S256" and C is the
\* unpadded URL-safe base64 of SHA-256(V); it is false for every other
\* method, "plain" with C = V included, and for every verifier whose
\* encoded digest differs from C.
C7_ValidatePKCE ==
    pkceOut # "none"
        => (pkceOut = "true"
              <=> /\ pkceIn.method = "S256"
                  /\ pkceIn.codeChallenge = S256Reference[pkceIn.codeVerifier])

\* The RFC 7636 pair is accepted under S256
C7_Witness ==
    /\ pkceOut = "true"
    /\ pkceIn.codeVerifier = VerifierRFC
    /\ pkceIn.codeChallenge = ChallengeRFC

(***************************************************************************)
(* The authorization endpoint on its own, with every kind of request       *)
(***************************************************************************)
\* Every combination of the OAuth parameters with one login, and every
\* login with the parameters of the flow
AuthorizeRequests ==
    [method : {"GET", "POST", "PUT"}, response_type : {"code", "token"},
     client_id : {"", "c1"}, redirect_uri : {"", "https://x/cb"},
     state : {"s1"}, scope : {"openid"},
     code_challenge : {"", ChallengeRFC},
     code_challenge_method : {"S256", "plain"},
     email : {"a@x"}, password : {GoodPassword}]
    \cup
    [method : {"GET", "POST"}, response_type : {"code"},
     client_id : {"c1"}, redirect_uri : {"https://x/cb"},
     state : {"", "s1"}, scope : {"openid"},
     code_challenge : {ChallengeRFC}, code_challenge_method : {"S256"},
     email : {""} \cup Emails, password : {"", GoodPassword, "wrong-pw1"}]

\* The context is read by CreateAuthorizationCode only
AuthorizeAny ==
    \E r \in AuthorizeRequests :
        \E done \in IF r.method = "POST" /\ AuthorizeValidation(r)[1] = ""
                     THEN BOOLEAN ELSE {FALSE} :
            AuthorizeHandler(r, done, "last")

NextAuthorize ==
    \/ Signup
    \/ AuthorizeAny

SpecAuthorize == Init /\ [][NextAuthorize]_vars

\* Credential submissions, with the failures kept
AuthorizeLogin ==
    \E r \in FlowRequests, done \in BOOLEAN :
        AuthorizeHandler(r, done, "log")

NextLogin ==
    \/ Signup
    \/ AuthorizeLogin

SpecLogin == Init /\ [][NextLogin]_vars

\* The request passes the validation of the OAuth parameters
ValidParameters(r) ==
    /\ r.response_type = "code"
    /\ r.client_id # ""
    /\ r.redirect_uri # ""
    /\ r.code_challenge # ""
    /\ r.code_challenge_method = "S256"

\* C9: every record of the registry was created by a POST to the
\* authorization endpoint that passed the parameter validation and whose
\* email and password verified against an account existing then; so every
\* record has method S256 and the id of an account that existed at issue.
C9_RecordsFromValidatedLogin ==
    /\ [](\A k \in DOMAIN authorizationCodes :
            LET i == authorizationCodes[k]
                r == issueLog[i].req
            IN  /\ r.method = "POST"
                /\ ValidParameters(r)
                /\ codeObjs[i].CodeChallengeMethod = "S256"
                /\ codeObjs[i].CodeChallenge = r.code_challenge
                /\ codeObjs[i].ClientID = r.client_id
                /\ codeObjs[i].RedirectURI = r.redirect_uri
                /\ codeObjs[i].AccountID \in DOMAIN accounts
                /\ accounts[codeObjs[i].AccountID].Email = r.email
                /\ accounts[codeObjs[i].AccountID].Password
                     = Hash(r.password))
    /\ [][authorizationCodes' # authorizationCodes
            => /\ lastAuthorize'.req.method = "POST"
               /\ ValidParameters(lastAuthorize'.req)
               /\ \A k \in DOMAIN authorizationCodes'
                            \ DOMAIN authorizationCodes :
                    LET o == codeObjs'[authorizationCodes'[k]]
                    IN  /\ o.AccountID \in DOMAIN accounts
                        /\ accounts[o.AccountID].Email
                             = lastAuthorize'.req.email
                        /\ accounts[o.AccountID].Password
                             = Hash(lastAuthorize'.req.password)]_vars

\* Two records are in the registry, for two accounts
C9_Witness ==
    /\ DOMAIN authorizationCodes = Codes
    /\ \E i, j \in 1..Len(codeObjs) :
          codeObjs[i].AccountID # codeObjs[j].AccountID

\* C10: for GET and for POST, a response_type other than "code" is
\* rejected as unsupported_response_type; otherwise an empty client_id,
\* redirect_uri or code_challenge as invalid_request; otherwise a method
\* other than "S256" as invalid_request; only a request passing the three
\* checks gets the login form or the credential check.
C10_ValidationOrder ==
    LET r == lastAuthorize.req
        a == lastAuthorize.resp
        missing == r.client_id = "" \/ r.redirect_uri = ""
                     \/ r.code_challenge = ""
    IN  r.method \in {"GET", "POST"}
        => /\ r.response_type # "code"
                => /\ a.call = "sendAuthorizationError"
                   /\ a.error = "unsupported_response_type"
           /\ (r.response_type = "code" /\ missing)
                => /\ a.call = "sendAuthorizationError"
                   /\ a.error = "invalid_request"
           /\ (r.response_type = "code" /\ ~missing
                 /\ r.code_challenge_method # "S256")
                => /\ a.call = "sendAuthorizationError"
                   /\ a.error = "invalid_request"
                   /\ a.description = "code_challenge_method must be S256"
           /\ a.call \in {"renderLoginForm", "Redirect"}
                <=> ValidParameters(r)

\* A request with a wrong response_type and no client_id was rejected for
\* its response_type
C10_Witness ==
    /\ lastAuthorize.req.method = "GET"
    /\ lastAuthorize.req.response_type = "token"
    /\ lastAuthorize.req.client_id = ""
    /\ lastAuthorize.resp.error = "unsupported_response_type"

(***************************************************************************)
(* Properties of the authorization endpoint                                *)
(***************************************************************************)
\* The step handles an authorization request whose answer is new
Answered == lastAuthorize' # lastAuthorize

\* The credentials of the request are those of a stored account
CorrectCredentials(r) ==
    \E a \in DOMAIN accounts :
        /\ accounts[a].Email = r.email
        /\ accounts[a].Password = Hash(r.password)

\* "&state=<state>" exactly when a state was supplied
StateSuffix(r) == IF r.state # "" THEN <<"&state=", r.state>> ELSE <<>>

\* C11 (as stated): a rejected authorization request with a redirect_uri
\* is answered 302 to redirect_uri?error=..&error_description=..[&state=..];
\* one without redirect_uri is answered 400 with {error, error_description}.
C11_RejectionDelivered ==
    LET r == lastAuthorize.req
        a == lastAuthorize.resp
    IN  a.call = "sendAuthorizationError"
        => IF r.redirect_uri # ""
           THEN /\ a.status = 302
                /\ a.location = <<r.redirect_uri, "?error=", a.error,
                                  "&error_description=", a.description>>
                                 \o StateSuffix(r)
           ELSE /\ a.status = 400
                /\ a.body = <<a.error, a.description>>

C13_FailuresIndistinguishable ==
    /\ [](\A f, g \in failures : f.params = g.params => f.resp = g.resp)
    /\ [][failures' # failures
            => UNCHANGED <<codeObjs, authorizationCodes>>]_vars

\* Both kinds of failure have been answered for the same parameters
C13_Witness ==
    \E f, g \in failures :
        /\ f.params = g.params
        /\ f.err = "account not found"
        /\ g.err = "invalid credentials"

Registry == <<codeObjs, authorizationCodes>>

C16_ValidationConsumesNothing ==
    [][/\ \A r \in TokenRequests :
            (/\ r.method = "POST"
             /\ \/ /\ r.grant_type = "authorization_code"
                   /\ MissingParameter(r.code, r.client_id, r.code_verifier)
                \/ /\ r.grant_type = "refresh_token"
                   /\ r.refresh_token = NoClaims
             /\ \E d \in BOOLEAN : TokenHandler(1, r, d)) =>
                /\ lastExchange'.error = "invalid_request"
                /\ lastExchange'.tokens = NoTokens
                /\ UNCHANGED <<Registry, minted>>
       /\ \A r \in RejectedRequests :
            AuthorizeHandler(r, FALSE, "last") =>
                /\ lastAuthorize'.resp.status # 0
                /\ lastAuthorize'.resp.error = AuthorizeValidation(r)[1]
                /\ UNCHANGED Registry]_vars

\* C17: an authorization_code request with code, client_id and
\* code_verifier present whose exchange fails is answered 400
\* invalid_grant, and the handler does not panic on it
C17_ExchangeFailureInvalidGrant ==
    [][/\ \A p \in Procs :
            (Returns(p) /\ lastExchange'.err # "") =>
                /\ lastExchange'.status = 400
                /\ lastExchange'.error = "invalid_grant"
       /\ \A r \in TokenRequests :
            (/\ r.method = "POST"
             /\ r.grant_type = "authorization_code"
             /\ ~MissingParameter(r.code, r.client_id, r.code_verifier)
             /\ TokenHandler(1, r, FALSE)) =>
                lastExchange'.err # "panic"]_vars

(***************************************************************************)
(* The UserInfo endpoint (SpecUserInfo)                                    *)
(***************************************************************************)
\* UserInfoHandler has answered a request
AnsweredUserInfo == lastUserInfo' # lastUserInfo

\* The header is "Bearer", one space and a token string
ExactBearer(header) ==
    /\ Len(header) = 3
    /\ header[1] = Chunk("Bearer")
    /\ header[2] = Space
    /\ header[3].s = ""

\* The token validates now: the server made it and it has not expired
Validates(token) == token.sub # 0 /\ now <= FromUnix(token.exp)

\* The profile of the account as stored
StoredProfile(id) ==
    [ID |-> id, Email |-> accounts[id].Email, Name |-> accounts[id].Name]

\* C18: the token is taken from an Authorization header of the exact shape
\* "Bearer <token>" only: a GET with any other header (none, another
\* scheme, a bare token, a token in the query string only) is answered 401
\* unauthorized without its token reaching validation, and a profile is
\* returned only for the token of such a header
C18_BearerHeaderOnly ==
    [][AnsweredUserInfo =>
         LET u == lastUserInfo'
         IN  /\ (u.method = "GET" /\ ~ExactBearer(u.header)) =>
                    /\ ~u.validated
                    /\ u.status = 401
                    /\ u.error = "unauthorized"
                    /\ u.profile = NoProfile
             /\ u.status = 200 =>
                    /\ ExactBearer(u.header)
                    /\ u.profile.ID = u.header[3].t.sub]_vars

\* a valid token of a stored account sent in the query string only was
\* answered 401
C18_Witness ==
    /\ lastUserInfo.method = "GET"
    /\ lastUserInfo.header = <<>>
    /\ Validates(lastUserInfo.query)
    /\ lastUserInfo.query.sub \in DOMAIN accounts
    /\ lastUserInfo.ctx = "live"
    /\ lastUserInfo.status = 401

\* C19 as stated: a GET with a token that validates (the validation was
\* not cut short by a context that was done from the start) is answered
\* with the profile of the account whose id is the token's subject, as
\* stored now; when the token does not validate or the account is not
\* stored any more the answer is 401 unauthorized
C19_ProfileOfSubject ==
    [][(AnsweredUserInfo /\ lastUserInfo'.method = "GET"
           /\ ExactBearer(lastUserInfo'.header)) =>
         LET u == lastUserInfo'
             token == u.header[3].t
         IN  IF /\ Validates(token)
                /\ u.ctx # "start"
                /\ token.sub \in DOMAIN accounts
             THEN u.status = 200 /\ u.profile = StoredProfile(token.sub)
             ELSE /\ u.status = 401
                  /\ u.error = "unauthorized"
                  /\ u.profile = NoProfile]_vars

\* C19 amended: the same for a request whose context is not done; a
\* request whose context is done before the account is loaded is answered
\* 401 unauthorized
C19_ProfileOfSubjectUnlessCancelled ==
    [][(AnsweredUserInfo /\ lastUserInfo'.method = "GET"
           /\ ExactBearer(lastUserInfo'.header)) =>
         LET u == lastUserInfo'
             token == u.header[3].t
         IN  IF /\ Validates(token)
                /\ token.sub \in DOMAIN accounts
                /\ u.ctx = "live"
             THEN u.status = 200 /\ u.profile = StoredProfile(token.sub)
             ELSE /\ u.status = 401
                  /\ u.error = "unauthorized"
                  /\ u.profile = NoProfile]_vars

\* a profile was returned that differs from the claims of the token: the
\* account was edited after the token was made
C19_Witness ==
    /\ lastUserInfo.status = 200
    /\ lastUserInfo.ctx = "live"
    /\ lastUserInfo.profile.ID = lastUserInfo.header[3].t.sub
    /\ lastUserInfo.profile.Email # lastUserInfo.header[3].t.email

(***************************************************************************)
(* The account store (SpecRepo)                                            *)
(***************************************************************************)
\* C20: no two stored accounts have the same email, after any sequence of
\* Create, Update and Delete
C20_EmailUnique ==
    \A i, j \in DOMAIN accounts :
        accounts[i].Email = accounts[j].Email => i = j


(***************************************************************************)
(* Properties of the account service                                       *)
(***************************************************************************)
\* The goroutine p returns from the signup handler in this step
SignupReturns(p) == signup[p].pc # "idle" /\ signup'[p].pc = "idle"

\* The errors of Create for an id or an email that is stored already
CreateExistsErrors ==
    {"account with ID already exists", "account with email already exists"}

\* C21: Create fails with an already-exists error and leaves the store
\* unchanged when a stored record holds the same id or email (its context
\* being live); no two stored accounts share an email; and of concurrent
\* CreateAccount calls for one email, one that succeeds finds no account of
\* that email and leaves exactly one, so at most one of them succeeds.
C21_CreateOnce ==
    [][/\ \A e \in Emails :
             \A i, j \in DOMAIN accounts' :
                 accounts'[i].Email = e /\ accounts'[j].Email = e => i = j
       /\ lastCreate' # lastCreate =>
             LET c == lastCreate'
             IN  /\ c.err # "" => accounts' = accounts
                 /\ (/\ ~c.ctxDone
                     /\ \/ c.acc.ID \in DOMAIN accounts
                        \/ \E id \in DOMAIN accounts :
                               accounts[id].Email = c.acc.Email)
                    => c.err \in CreateExistsErrors
       /\ \A p \in Procs :
             SignupReturns(p) /\ lastSignup'.status = 201 =>
                 LET e == signup[p].req.email
                 IN  /\ \A id \in DOMAIN accounts : accounts[id].Email # e
                     /\ \E id \in DOMAIN accounts' :
                            /\ id = lastSignup'.account_id
                            /\ accounts'[id].Email = e]_vars

\* Two signups for one email were inside CreateAccount together, one has
\* stored its account and the other's Create was refused for the email
C21_Witness ==
    /\ lastCreate.err = "account with email already exists"
    /\ ~lastCreate.ctxDone
    /\ lastSignup.status = 409
    /\ lastSignup.req.email = lastCreate.acc.Email
    /\ Cardinality(GetByEmail(lastCreate.acc.Email)) = 1


\* C22: a signup request (POST with a JSON body) is answered 400
\* invalid_request when its email or password is missing or its password
\* is shorter than 8 characters; 201 only for a password of at least 8
\* characters and an email no stored account had; 409 account_exists only
\* when an account with the email exists; and the answers 400 and 409
\* leave the account store unchanged.
C22_SignupAnswers ==
    [][lastSignup' # lastSignup =>
          LET a == lastSignup'
              r == a.req
          IN  r.method = "POST" /\ r.json =>
                /\ (r.email = "" \/ r.password = "" \/ Len(r.password) < 8)
                   => a.status = 400 /\ a.error = "invalid_request"
                /\ a.status \in {400, 409} => accounts' = accounts
                /\ a.status = 201 =>
                      /\ Len(r.password) >= 8
                      /\ \A id \in DOMAIN accounts :
                             accounts[id].Email # r.email
                /\ a.status = 409 =>
                      /\ a.error = "account_exists"
                      /\ \E id \in DOMAIN accounts :
                             accounts[id].Email = r.email]_vars


\* The smaller and the larger of two integers
Min(a, b) == IF a < b THEN a ELSE b
Max(a, b) == IF a > b THEN a ELSE b

\* ListAccounts has returned a result (its context was live)
Listed(l) == l.err \notin {"none", "context canceled"}

\* C23: ListAccounts never panics and never returns more than 100
\* records: it returns min(effective limit, stored - effective offset)
\* records, none when the offset is beyond the stored accounts, where the
\* effective limit is min(limit, 100) for a positive limit and 10
\* otherwise, and the effective offset is 0 for a negative offset.
C23_ListBounds ==
    Listed(lastList) =>
        LET limit == IF lastList.limit <= 0 THEN 10
                     ELSE Min(lastList.limit, 100)
            offset == Max(lastList.offset, 0)
        IN  /\ lastList.err = ""
            /\ Len(lastList.result) <= 100
            /\ Len(lastList.result) = Min(limit, Max(lastList.stored - offset, 0))
            /\ offset >= lastList.stored => lastList.result = <<>>
            /\ \A i \in DOMAIN lastList.result :
                   lastList.result[i] \in DOMAIN accounts

\* More than 100 accounts are stored and a list of more than 100 was asked
\* for: 100 are returned
C23_Witness ==
    /\ lastList.err = ""
    /\ lastList.stored > 100
    /\ lastList.limit > 100
    /\ lastList.offset <= 0
    /\ Len(lastList.result) = 100


\* The ids of a result
Ids(result) == {result[i] : i \in DOMAIN result}

\* C24: a list is in the order of created-at, descending; two calls of
\* ListAccounts with the same limit and offset on an unchanged store
\* return the same sequence; and the page at offset n with limit n that
\* follows the page at offset 0 with limit n neither repeats an account of
\* that page nor skips one: together they hold min(2n, stored) accounts.
C24_ListOrder ==
    [][Listed(lastList') =>
          LET l == lastList'
              k == lastList
          IN  /\ \A i, j \in DOMAIN l.result :
                     i < j => accounts[l.result[i]].CreatedAt
                                  >= accounts[l.result[j]].CreatedAt
              /\ Listed(k) /\ k.limit = l.limit /\ k.offset = l.offset
                 => l.result = k.result
              /\ (/\ Listed(k)
                  /\ k.limit \in 1..100
                  /\ k.offset = 0
                  /\ l.limit = k.limit
                  /\ l.offset = k.limit)
                 => /\ Ids(k.result) \cap Ids(l.result) = {}
                    /\ Cardinality(Ids(k.result) \cup Ids(l.result))
                         = Min(2 * k.limit, l.stored)]_vars


(***************************************************************************)
(* Properties of the password hasher                                       *)
(***************************************************************************)
\* C25: Hash fails for the empty password; Compare of the hash of a
\* password P that Hash accepted succeeds with P and fails with every
\* other password; and Compare returns an error for an empty or a
\* malformed verifier string.
C25_HashCompare ==
    /\ hasher.err # "none" /\ hasher.password = "" => hasher.err # ""
    /\ hasher.compare.err # "none" =>
          LET c == hasher.compare
          IN  IF c.hashedPassword \in {<<>>, MalformedHash}
              THEN c.err # ""
              ELSE c.err = "" <=> c.password = hasher.password


(***************************************************************************)
(* Properties of the token service                                         *)
(***************************************************************************)
\* The last call was this operation on a token of the pair made, with a
\* live context
CalledOnPair(op) ==
    /\ jwe.call.op = op
    /\ ~jwe.call.ctxDone
    /\ jwe.pair # NoTokens
    /\ jwe.call.token \in PairTokens

\* The instant is within the token's not-before and expiry claims
InWindow(token, at) == FromUnix(token.nbf) <= at /\ at <= FromUnix(token.exp)

C27_ValidityWindow ==
    [][LET c == jwe'.call
           b == jwe.call
       IN  (/\ c.op = "ValidateToken"
            /\ ~c.ctxDone
            /\ jwe'.pair # NoTokens
            /\ c.token \in {jwe'.pair.AccessToken, jwe'.pair.RefreshToken})
           => /\ c.err = "" <=> InWindow(c.token, c.at)
              /\ c.at > FromUnix(c.token.exp) => c.err = "token has expired"
              /\ c.at < FromUnix(c.token.nbf) => c.err = "token not yet valid"
              /\ (/\ b.op = "ValidateToken"
                  /\ b.token = c.token
                  /\ b.err = "token has expired"
                  /\ c.at >= b.at)
                 => c.err = "token has expired"]_vars

\* The clock was set back after the mint, and the token is not yet valid
C27_Witness ==
    /\ CalledOnPair("ValidateToken")
    /\ jwe.call.at < FromUnix(jwe.call.token.nbf)
    /\ jwe.call.err = "token not yet valid"

\* C28: RefreshToken with the refresh token of the pair, at a time after
\* the mint, returns a pair for the subject, email and name of the token's
\* claims whose access token's exp is strictly greater than the exp of
\* the access token of the first pair.
C28_RefreshExtends ==
    LET c == jwe.call
    IN  (/\ CalledOnPair("RefreshToken")
         /\ c.token = jwe.pair.RefreshToken
         /\ c.at > jwe.mintedAt
         /\ c.err = "")
        => /\ c.tokens.AccessToken.sub = c.token.sub
           /\ c.tokens.AccessToken.email = c.token.email
           /\ c.tokens.AccessToken.name = c.token.name
           /\ c.tokens.AccessToken.exp > jwe.pair.AccessToken.exp

\* C29: RevokeToken returns nil and changes nothing of the service; a
\* token of the pair, after RevokeToken was called with it or with the
\* other token of the pair, is validated and refreshed as one never
\* revoked: accepted exactly within its validity window.
C29_RevokeNoEffect ==
    [][LET c == jwe'.call
       IN  /\ (c.op = "RevokeToken" /\ c # jwe.call)
              => /\ c.err = ""
                 /\ jwe'.pair = jwe.pair
                 /\ UNCHANGED <<now, accounts, codeObjs, authorizationCodes>>
           /\ (/\ c.op \in {"ValidateToken", "RefreshToken"}
               /\ ~c.ctxDone
               /\ jwe'.pair # NoTokens
               /\ c.token \in {jwe'.pair.AccessToken, jwe'.pair.RefreshToken}
               /\ jwe'.revoked # {})
              => /\ c.err = "" <=> InWindow(c.token, c.at)
                 /\ c.op = "RefreshToken" /\ c.err = ""
                    => c.tokens # NoTokens]_vars

\* RevokeToken was called with the access token, which is then validated
\* and accepted
C29_Witness ==
    /\ CalledOnPair("ValidateToken")
    /\ jwe.call.token = jwe.pair.AccessToken
    /\ jwe.call.token \in jwe.revoked
    /\ jwe.call.err = ""


(***************************************************************************)
(* Properties of the start of the process                                  *)
(***************************************************************************)
\* C30: when the driver is postgres and the database cannot be created,
\* connected to or read at startup, NewContainer returns no error and the
\* container holds the in-memory account repository.
C30_FallbackToMemory ==
    (/\ container # NoContainer
     /\ container.Driver = "postgres"
     /\ container.db # "ok")
    => /\ container.err = ""
       /\ container.AccountRepository = "memory"


(***************************************************************************)
(* GET /.well-known/openid_configuration:                                  *)
(* ConfigHandler.OpenIDConfigurationHandler.  Of the document the issuer,  *)
(* two of the endpoint URLs and the three lists the clients choose their   *)
(* requests by are kept; a list is written as the sequence that            *)
(* json.Encoder writes.                                                    *)
(***************************************************************************)
\* LoadConfig: the defaults of ISSUER and DOMAIN
Issuer == "auth0-server"
Domain == "localhost:8080"

DiscoveryFrame == UNCHANGED <<coreVars, keys, holder, tokenCache, pool>>

\* The map the handler encodes (variant: the implicit grant's response
\* type is advertised too)
OpenIDConfigurationImplicit(tls) ==
    LET baseURL == IF tls THEN "https://" \o Domain ELSE "http://" \o Domain
    IN  [issuer |-> Issuer,
         authorization_endpoint |-> baseURL \o "/authorize",
         token_endpoint |-> baseURL \o "/oauth/token",
         response_types_supported |-> <<"code", "token">>,
         grant_types_supported |-> <<"authorization_code", "refresh_token">>,
         code_challenge_methods_supported |-> <<"S256">>]

OpenIDConfiguration(tls) ==
    LET baseURL == IF tls THEN "https://" \o Domain ELSE "http://" \o Domain
    IN  [issuer |-> Issuer,
         authorization_endpoint |-> baseURL \o "/authorize",
         token_endpoint |-> baseURL \o "/oauth/token",
         response_types_supported |-> <<"code">>,
         grant_types_supported |-> <<"authorization_code", "refresh_token">>,
         code_challenge_methods_supported |-> <<"S256">>]

OpenIDConfigurationHandler(method, tls) ==
    /\ ~crashed
    /\ discovery' = IF method # "GET"
                    THEN [method |-> method, tls |-> tls, status |-> 405,
                          doc |-> NoDocument]
                    ELSE [method |-> method, tls |-> tls, status |-> 200,
                          doc |-> OpenIDConfiguration(tls)]
    /\ DiscoveryFrame

(***************************************************************************)
(* A client that fetches the discovery document and then calls the         *)
(* authorization and the token endpoint with every kind of request         *)
(***************************************************************************)
DiscoveryAny ==
    /\ discovery.status # 200
    /\ \E method \in {"GET", "POST"}, tls \in BOOLEAN :
           OpenIDConfigurationHandler(method, tls)

\* The client holds the document
Advertised == discovery.status = 200

\* Authorization requests with every response type and every challenge
\* method, and token requests with every grant type
OfferedAuthorizeRequests ==
    [method : {"GET", "POST"},
     response_type : {"code", "token", "id_token", ""},
     client_id : {"c1"}, redirect_uri : {"https://x/cb"},
     state : {"s1"}, scope : {"openid"},
     code_challenge : {ChallengeRFC},
     code_challenge_method : {"S256", "plain", ""},
     email : {"a@x"}, password : {GoodPassword}]

OfferedTokenRequests ==
    [method : {"POST"},
     grant_type : {"authorization_code", "refresh_token", "password",
                   "implicit", "client_credentials", ""},
     code : {1}, client_id : {"c1"},
     code_verifier : {VerifierRFC}, redirect_uri : {"https://x/cb"},
     refresh_token : {lastExchange.tokens.RefreshToken}]

AuthorizeOffered ==
    /\ Len(codeObjs) < MaxConcCodes
    /\ \E r \in OfferedAuthorizeRequests : AuthorizeHandler(r, FALSE, "last")

TokenOffered ==
    /\ AllIdle
    /\ \E r \in OfferedTokenRequests : TokenHandler(1, r, FALSE)

NextDiscovery ==
    \/ DiscoveryAny
    \/ Advertised /\ AllIdle /\ Signup
    \/ Advertised /\ AllIdle /\ AuthorizeOffered
    \/ Advertised /\ TokenOffered
    \/ Advertised /\ ExchangeStep

SpecDiscovery == Init /\ [][NextDiscovery]_vars

\* The values of a list of the document
Values(list) == {list[i] : i \in DOMAIN list}

KeySize == 32

\* "_enc" and "_sig"
EncSuffix == <<95, 101, 110, 99>>
SigSuffix == <<95, 115, 105, 103>>

KeysFrame == UNCHANGED <<coreVars, discovery, holder, tokenCache, pool>>

\* LoadConfig, lines 21-24
LoadConfigError(secret) ==
    IF secret = <<>> THEN "JWE_SECRET is required" ELSE ""

\* []byte(s)[:32] of a slice of this capacity: the slice expression panics
\* when 32 is beyond the capacity; the bytes between the length and the
\* capacity are zero
SliceTo(b, capacity, n) ==
    IF n > capacity THEN <<>>
    ELSE [i \in 1..n |-> IF i <= Len(b) THEN b[i] ELSE 0]

\* The capacity of the slice a conversion []byte(s) makes is at least its
\* length; what it is beyond that the language leaves to the
\* implementation.  Two are taken: the length, and a buffer of 32 bytes.
Capacities(b) == IF Len(b) >= KeySize THEN {Len(b)} ELSE {Len(b), KeySize}

\* NewJWETokenService, lines 33-38
NewJWETokenService(secret, capEnc, capSig) ==
    LET enc == SliceTo(secret \o EncSuffix, capEnc, KeySize)
        sig == SliceTo(secret \o SigSuffix, capSig, KeySize)
    IN  IF enc = <<>> \/ sig = <<>>
        THEN [secret |-> secret, err |-> "panic",
              encryptionKey |-> <<>>, signingKey |-> <<>>]
        ELSE [secret |-> secret, err |-> "",
              encryptionKey |-> enc, signingKey |-> sig]

\* The start of the process with JWE_SECRET set to this: LoadEnhancedConfig,
\* then NewContainer's initializeServices
Startup(secret, capEnc, capSig) ==
    /\ keys = NoKeys
    /\ keys' = IF LoadConfigError(secret) # ""
               THEN [secret |-> secret, err |-> LoadConfigError(secret),
                     encryptionKey |-> <<>>, signingKey |-> <<>>]
               ELSE NewJWETokenService(secret, capEnc, capSig)
    /\ KeysFrame

(***************************************************************************)
(* The start of the process with secrets of every length                   *)
(***************************************************************************)
\* A secret of n bytes, of letters in one of three patterns
SecretOf(n, k) == [i \in 1..n |-> 97 + ((i * k) % 3)]

Secrets == {SecretOf(n, k) : n \in 0..MaxSecretLen, k \in 1..3}

StartupAny ==
    \E secret \in Secrets :
        \E capEnc \in Capacities(secret \o EncSuffix),
           capSig \in Capacities(secret \o SigSuffix) :
            Startup(secret, capEnc, capSig)

NextKeys == StartupAny

SpecKeys == Init /\ [][NextKeys]_vars

\* C32: the token service of every secret the start accepts has two keys
\* of 32 bytes that differ, and the start fails for every secret that,
\* with its suffix, is shorter than 32 bytes.
C32_KeysIndependent ==
    /\ keys.err = ""
         => /\ Len(keys.encryptionKey) = KeySize
            /\ Len(keys.signingKey) = KeySize
            /\ keys.encryptionKey # keys.signingKey
    /\ (keys.err # "none" /\ Len(keys.secret) + Len(EncSuffix) < KeySize)
         => keys.err # ""


(***************************************************************************)
(* The registry after an exchange (Spec)                                   *)
(***************************************************************************)
\* C33: when ExchangeCodeForTokens returns, with tokens or with an error,
\* also when its context was cancelled after the used-flag was set, the
\* registry holds no record for its code whose used-flag is set.
C33_NoPartialUpdate ==
    [][\A p \in Procs :
          Returns(p) =>
              LET code == exch[p].code
              IN  ~ /\ code \in DOMAIN authorizationCodes'
                    /\ codeObjs'[authorizationCodes'[code]].Used]_vars


(***************************************************************************)
(* The registry while time passes.  NewAuthUseCase starts no goroutine and *)
(* no timer; the handlers are the only code that touches the registry.     *)
(* Time passes and a handler that was called runs to its end; whether a    *)
(* client sends a request is up to the client.                             *)
(***************************************************************************)
NextSweep ==
    \/ Tick
    \/ AllIdle /\ Signup
    \/ AllIdle /\ Len(codeObjs) < MaxConcCodes /\ Authorize
    \/ TokenRequestSeq
    \/ CancelStep
    \/ ExchangeStep

SpecSweep ==
    Init /\ [][NextSweep]_vars /\ WF_vars(Tick) /\ WF_vars(ExchangeStep)

\* The record of this code is in the registry, and its expiry has passed
\* or its used-flag is set
Stale(c) ==
    /\ c \in DOMAIN authorizationCodes
    /\ \/ now > codeObjs[authorizationCodes[c]].ExpiresAt
       \/ codeObjs[authorizationCodes[c]].Used

\* C34: a record whose expiry has passed or whose used-flag is set is
\* eventually removed from the registry, whether or not a client presents
\* its code again.
C34_StaleEventuallyRemoved ==
    \A c \in Codes : [](Stale(c) => <>(c \notin DOMAIN authorizationCodes))


(***************************************************************************)
(* The Account objects of InMemoryAccountRepository and of its callers.    *)
(* The map holds pointers to Account objects, and Create, GetByID,         *)
(* GetByEmail and List take or return pointers.  A caller's pointer is     *)
(* written as the object it points to and the id of the stored object it   *)
(* is, 0 when it is an object of the caller's own.  Writing through a      *)
(* pointer that is a stored object writes the stored object.               *)
(***************************************************************************)
HolderFrame ==
    UNCHANGED <<sha256sum, now, idSeq, codeObjs, authorizationCodes,
                exch, crashed, lastExchange, minted, matched, issueLog,
                lastAuthorize, failures, lastUserInfo, pkceIn, pkceOut,
                signup, lastSignup, lastCreate, lastList, hasher, jwe,
                container, discovery, keys, tokenCache, pool>>

Held(obj, stored, via, err) ==
    [obj |-> obj, stored |-> stored, via |-> via, last |-> via, err |-> err]

\* Create, lines 50-62: r.accounts[acc.ID] = &account.Account{...}, a new
\* object with the fields of acc; the caller keeps acc
CreateHeld(ctxDone, acc) ==
    Held(acc, 0, "Create", CreateError(ctxDone, acc))

\* GetByID, lines 74-100: the pointer returned
\* (variant: the stored pointer is returned)
GetByIDShared(ctxDone, id) ==
    IF ctxDone THEN Held(BlankAccount, 0, "none", "context canceled")
    ELSE IF id \notin DOMAIN accounts
    THEN Held(BlankAccount, 0, "none", "account not found")
    ELSE Held(accounts[id], id, "GetByID", "")

GetByID(ctxDone, id) ==
    IF ctxDone THEN Held(BlankAccount, 0, "none", "context canceled")
    ELSE IF id \notin DOMAIN accounts
    THEN Held(BlankAccount, 0, "none", "account not found")
    ELSE Held(accounts[id], 0, "GetByID", "")

\* GetByEmail, lines 103-130: the loop returns a copy of the first account
\* with this email that it meets
GetByEmailCopies(ctxDone, email) ==
    IF ctxDone THEN {Held(BlankAccount, 0, "none", "context canceled")}
    ELSE IF GetByEmail(email) = {}
    THEN {Held(BlankAccount, 0, "none", "account not found")}
    ELSE {Held(accounts[id], 0, "GetByEmail", "") : id \in GetByEmail(email)}

\* List, lines 196-211: every element of the slice is a new object
ListCopies(ctxDone, order, limit, offset) ==
    IF ctxDone THEN {Held(BlankAccount, 0, "none", "context canceled")}
    ELSE LET out == List(order, limit, offset)
         IN  IF out.err # "" \/ out.result = <<>>
             THEN {Held(BlankAccount, 0, "none", out.err)}
             ELSE {Held(accounts[out.result[i]], 0, "List", "")
                      : i \in DOMAIN out.result}

\* The caller calls Create with an object of its own and keeps the object
HolderCreate(ctxDone, acc) ==
    /\ ~crashed
    /\ accounts' = CreateStore(ctxDone, acc)
    /\ holder' = CreateHeld(ctxDone, acc)
    /\ HolderFrame

HolderGetByID(ctxDone, id) ==
    /\ ~crashed
    /\ holder' = GetByID(ctxDone, id)
    /\ UNCHANGED accounts
    /\ HolderFrame

HolderGetByEmail(ctxDone, email) ==
    /\ ~crashed
    /\ holder' \in GetByEmailCopies(ctxDone, email)
    /\ UNCHANGED accounts
    /\ HolderFrame

HolderList(ctxDone, order, limit, offset) ==
    /\ ~crashed
    /\ holder' \in ListCopies(ctxDone, order, limit, offset)
    /\ UNCHANGED accounts
    /\ HolderFrame

\* The caller assigns to the fields of the object it holds
Mutate(email, name, blocked) ==
    /\ ~crashed
    /\ holder.via # "none"
    /\ LET obj == [holder.obj EXCEPT !.Email = email, !.Name = name,
                                     !.Blocked = blocked]
       IN  /\ obj # holder.obj
           /\ holder' = [holder EXCEPT !.obj = obj, !.last = "Mutate"]
           /\ accounts' = IF holder.stored \in DOMAIN accounts
                          THEN [accounts EXCEPT ![holder.stored] = obj]
                          ELSE accounts
    /\ HolderFrame

\* The caller calls Update with the object it holds: lines 141-154 assign
\* its fields to the stored object
HolderUpdate(ctxDone) ==
    /\ ~crashed
    /\ holder.via # "none"
    /\ accounts' = IF ctxDone \/ holder.obj.ID \notin DOMAIN accounts
                   THEN accounts
                   ELSE [accounts EXCEPT ![holder.obj.ID] =
                            [ID |-> @.ID, Email |-> holder.obj.Email,
                             Password |-> holder.obj.Password,
                             Name |-> holder.obj.Name,
                             Blocked |-> holder.obj.Blocked]]
    /\ holder' = [holder EXCEPT !.last = "Update"]
    /\ HolderFrame

HolderDelete(ctxDone, id) ==
    /\ ~crashed
    /\ accounts' = IF ctxDone \/ id \notin DOMAIN accounts
                   THEN accounts
                   ELSE MapDelete(accounts, id)
    /\ holder' = [holder EXCEPT !.last = "Delete"]
    /\ HolderFrame

(***************************************************************************)
(* A caller of the repository that keeps the object of its last call and   *)
(* writes to it                                                            *)
(***************************************************************************)
CallerAccounts ==
    {[ID |-> 1, Email |-> "a@x", Password |-> Hash(GoodPassword),
      Name |-> "A", Blocked |-> FALSE],
     [ID |-> 2, Email |-> "b@x", Password |-> Hash(GoodPassword),
      Name |-> "B", Blocked |-> FALSE]}

CallerCreates ==
    \E d \in BOOLEAN, acc \in CallerAccounts : HolderCreate(d, acc)

CallerLooksUp ==
    \/ \E d \in BOOLEAN, id \in 1..MaxAccounts : HolderGetByID(d, id)
    \/ \E d \in BOOLEAN, email \in Emails : HolderGetByEmail(d, email)
    \/ \E d \in BOOLEAN, order \in MapOrders, limit \in {1, 2},
          offset \in {0, 1} : HolderList(d, order, limit, offset)

CallerMutates ==
    \E email \in Emails, name \in {"A", "M"}, blocked \in BOOLEAN :
        Mutate(email, name, blocked)

CallerUpdates == \E d \in BOOLEAN : HolderUpdate(d)

CallerDeletes == \E d \in BOOLEAN, id \in 1..MaxAccounts : HolderDelete(d, id)

NextCopies ==
    \/ CallerCreates
    \/ CallerLooksUp
    \/ CallerMutates
    \/ CallerUpdates
    \/ CallerDeletes

SpecCopies == Init /\ [][NextCopies]_vars

\* C35: a write to an Account object that GetByID, GetByEmail or List
\* returned, or that was passed to Create, leaves every stored account as
\* it was; the stored accounts change only in a call of Create, Update or
\* Delete.
C35_DefensiveCopies ==
    [][/\ holder'.last = "Mutate" => accounts' = accounts
       /\ accounts' # accounts
            => holder'.last \in {"Create", "Update", "Delete"}]_vars

\* The caller wrote to an object it got from a lookup, and the stored
\* account of that id is not what the caller's object now is
C35_Witness ==
    /\ holder.last = "Mutate"
    /\ holder.via \in {"GetByID", "GetByEmail", "List"}
    /\ holder.obj.ID \in DOMAIN accounts
    /\ accounts[holder.obj.ID] # holder.obj


(***************************************************************************)
(* Blocked accounts.  The blocked flag of a stored account is written by   *)
(* AccountUseCase.UpdateAccount (or, with the PostgreSQL back-end, in the  *)
(* row); POST /authorize calls AuthUseCase.CreateAuthorizationCode, which  *)
(* reads the account with GetAccountByEmail and compares the password with *)
(* VerifyPassword.  ValidateCredentials, which holds the only test of      *)
(* acc.Blocked, is not called on this path.                                *)
(***************************************************************************)
\* AccountUseCase.UpdateAccount: an account without id is refused, the
\* others go to the repository's Update
UpdateAccount(ctxDone, acc) ==
    /\ acc.ID # 0
    /\ Update(ctxDone, acc)

\* The flag of a stored account is set or cleared
SetBlocked ==
    \E id \in DOMAIN accounts, b \in BOOLEAN :
        /\ accounts[id].Blocked # b
        /\ UpdateAccount(FALSE, [accounts[id] EXCEPT !.Blocked = b])

NextBlocked ==
    \/ AllIdle /\ Signup
    \/ AllIdle /\ SetBlocked
    \/ AllIdle /\ Authorize
    \/ TokenRequestSeq
    \/ ExchangeStep

SpecBlocked == Init /\ [][NextBlocked]_vars

\* C36: no authorization code is issued for an account whose blocked flag
\* is set when the credentials are submitted: every step that adds a record
\* to the registry binds it to an account that is not blocked at that step
C36_NoCodeForBlocked ==
    [][Len(codeObjs') > Len(codeObjs)
         => ~accounts[codeObjs'[Len(codeObjs')].AccountID].Blocked]_vars


CacheFrame == UNCHANGED <<coreVars, discovery, keys, holder, pool>>

\* The values of cacheTTL the service is made with, in seconds
CacheTTLs == {1, 10 * 60}

\* NewInMemoryCache(maxSize) and NewCachedTokenService(tokenService, cache,
\* cacheTTL)
NewCachedTokenService(maxSize, cacheTTL) ==
    /\ tokenCache = NoCache
    /\ tokenCache' = [NoCache EXCEPT !.maxSize = maxSize,
                                     !.cacheTTL = cacheTTL]
    /\ CacheFrame

\* CacheEntry.IsExpired: time.Now().After(e.ExpiresAt)
EntryIsExpired(e) == now > e.ExpiresAt

\* "token:" + token
CacheKey(token) == <<"token:", token>>

\* evictOldest: the maps it can leave.  The range over the map keeps the
\* first key it meets among those with the earliest ExpiresAt.
evictOldest(entries) ==
    IF DOMAIN entries = {} THEN {entries}
    ELSE {[k \in DOMAIN entries \ {oldest} |-> entries[k]] :
            oldest \in {k \in DOMAIN entries :
                          \A j \in DOMAIN entries :
                              entries[k].ExpiresAt <= entries[j].ExpiresAt}}

\* InMemoryCache.Set: the maps it can leave
Set(entries, maxSize, key, value, ttl) ==
    {[k \in DOMAIN kept \cup {key} |->
         IF k = key
         THEN [Value |-> value, ExpiresAt |-> now + (ttl * TicksPerSecond)]
         ELSE kept[k]] :
       kept \in IF Cardinality(DOMAIN entries) >= maxSize
                THEN evictOldest(entries)
                ELSE {entries}}

\* InMemoryCache.Get: the value found, or none (the key is absent or its
\* entry has expired)
Get(entries, key) ==
    IF key \notin DOMAIN entries \/ EntryIsExpired(entries[key]) THEN {}
    ELSE {entries[key].Value}

CacheCall(token, ctxDone, err, claims, hit) ==
    [token |-> token, ctxDone |-> ctxDone, at |-> now, err |-> err,
     claims |-> claims, hit |-> hit]

\* CachedTokenService.ValidateToken
CachedValidateToken(ctxDone, token) ==
    /\ tokenCache.maxSize > 0
    /\ LET cached == Get(tokenCache.entries, CacheKey(token))
           err == ValidateTokenError(ctxDone, token)
       IN  IF cached # {}
           THEN \E v \in cached :
                   tokenCache' = [tokenCache EXCEPT !.call =
                       CacheCall(token, ctxDone, "", v, TRUE)]
           ELSE IF err # ""
           THEN tokenCache' = [tokenCache EXCEPT !.call =
                   CacheCall(token, ctxDone, err, NoParsed, FALSE)]
           ELSE \E after \in Set(tokenCache.entries, tokenCache.maxSize,
                                 CacheKey(token), ValidateTokenClaims(token),
                                 tokenCache.cacheTTL) :
                   tokenCache' = [tokenCache EXCEPT
                       !.entries = after,
                       !.call = CacheCall(token, ctxDone, "",
                                          ValidateTokenClaims(token), FALSE)]
    /\ CacheFrame

\* InMemoryCache.cleanup, one tick of its ticker: the expired entries are
\* deleted
cleanup ==
    /\ tokenCache.maxSize > 0
    /\ \E k \in DOMAIN tokenCache.entries : EntryIsExpired(tokenCache.entries[k])
    /\ tokenCache' = [tokenCache EXCEPT !.entries =
          [k \in {j \in DOMAIN @ : ~EntryIsExpired(@[j])} |-> @[k]]]
    /\ CacheFrame

NewCachedAny ==
    \E maxSize \in 1..MaxCacheSize, ttl \in CacheTTLs :
        NewCachedTokenService(maxSize, ttl)

CachedValidateAny ==
    \E d \in BOOLEAN, token \in JweTokens : CachedValidateToken(d, token)

MintOne == JweGenerate(FALSE, 1, "a@x", "A")

\* The clock is set to an instant around the mint or around a day later,
\* when the access token expires
ClockCache ==
    \E t \in {base + k : base \in {0, Day}, k \in 0..MaxSkew} : SetClock(t)

NextCache ==
    \/ ClockCache
    \/ MintOne
    \/ NewCachedAny
    \/ CachedValidateAny
    \/ cleanup

SpecCache == Init /\ [][NextCache]_vars

\* C38: CachedTokenService.ValidateToken never returns claims for a token
\* whose exp has passed at the time of the call, whatever the cache TTL and
\* the validations before
C38_NoClaimsAfterExp ==
    [][LET c == tokenCache'.call
       IN  (c # tokenCache.call /\ c.err = "")
           => now <= FromUnix(c.token.exp)]_vars


(***************************************************************************)
(* WorkerPool.  Each goroutine (the workers, processResults, the callers   *)
(* of Stop) is at a label pc of its code; a step is one statement, one     *)
(* select, or one section under the pool's lock.  A select takes any one   *)
(* of the communications that can proceed; a send on a closed channel can  *)
(* proceed and panics, a receive from a closed and empty channel yields    *)
(* nil.  A panic ends the process.  Tasks are written as their ids; the    *)
(* handler of a task with an even id returns an error.                     *)
(***************************************************************************)
PoolFrame == UNCHANGED <<coreVars, discovery, keys, holder, tokenCache>>

Workers == 1..NumWorkers
Stoppers == 1..NumStops

Running == pool.started /\ pool.panic = ""

\* NewWorkerPool(workers, bufferSize) and Start, as the container calls
\* them: wg.Add(1) and go worker(i) for each worker, go processResults()
StartPool ==
    /\ ~pool.started
    /\ pool' = [NoPool EXCEPT
                  !.started = TRUE,
                  !.wg = NumWorkers,
                  !.worker = [w \in Workers |-> [pc |-> "go", task |-> 0]],
                  !.results = [pc |-> "select", result |-> NoResult],
                  !.stop = [s \in Stoppers |-> "idle"]]
    /\ PoolFrame

\* worker, lines 76-78
WorkerL76(w) ==
    /\ Running
    /\ pool.worker[w].pc = "go"
    /\ pool' = [pool EXCEPT !.ActiveWorkers = @ + 1,
                            !.worker[w].pc = "select"]
    /\ PoolFrame

\* worker, lines 87-93: the select of the loop
WorkerL87(w) ==
    /\ Running
    /\ pool.worker[w].pc = "select"
    /\ \/ /\ pool.ctxDone
          /\ pool' = [pool EXCEPT !.worker[w].pc = "exit"]
       \/ /\ pool.taskQueue # <<>>
          /\ pool' = [pool EXCEPT !.taskQueue = Tail(@),
                                  !.worker[w] = [pc |-> "run",
                                                 task |-> Head(pool.taskQueue)]]
       \/ /\ pool.taskQueue = <<>>
          /\ pool.taskQueueClosed
          /\ pool' = [pool EXCEPT !.worker[w].pc = "exit"]
    /\ PoolFrame

\* worker, lines 95-103: the handler returns
WorkerL96(w) ==
    /\ Running
    /\ pool.worker[w].pc = "run"
    /\ pool' = [pool EXCEPT !.worker[w].pc = "send"]
    /\ PoolFrame

\* worker, lines 105-109: the result is sent, or the context is done
WorkerL105(w) ==
    /\ Running
    /\ pool.worker[w].pc = "send"
    /\ \/ /\ pool.resultChanClosed
          /\ pool' = [pool EXCEPT !.panic = "send on closed channel"]
       \/ /\ ~pool.resultChanClosed
          /\ Len(pool.resultChan) < QueueSize
          /\ pool' = [pool EXCEPT
                        !.resultChan = Append(@,
                            [TaskID |-> pool.worker[w].task,
                             Error |-> pool.worker[w].task % 2 = 0]),
                        !.worker[w] = [pc |-> "select", task |-> 0]]
       \/ /\ pool.ctxDone
          /\ pool' = [pool EXCEPT !.worker[w] = [pc |-> "exit", task |-> 0]]
    /\ PoolFrame

\* worker, lines 80-84: the deferred function, run first on return
WorkerL81(w) ==
    /\ Running
    /\ pool.worker[w].pc = "exit"
    /\ pool' = [pool EXCEPT !.ActiveWorkers = @ - 1,
                            !.worker[w].pc = "done"]
    /\ PoolFrame

\* worker, line 74: the deferred wg.Done(), run last
WorkerL74(w) ==
    /\ Running
    /\ pool.worker[w].pc = "done"
    /\ pool' = [pool EXCEPT !.wg = @ - 1, !.worker[w].pc = "gone"]
    /\ PoolFrame

WorkerSteps(w) ==
    \/ WorkerL76(w)
    \/ WorkerL87(w)
    \/ WorkerL96(w)
    \/ WorkerL105(w)
    \/ WorkerL81(w)
    \/ WorkerL74(w)

\* processResults, lines 117-120: the select of the loop
ResultsL117 ==
    /\ Running
    /\ pool.results.pc = "select"
    /\ \/ /\ pool.ctxDone
          /\ pool' = [pool EXCEPT !.results.pc = "gone"]
       \/ /\ pool.resultChan # <<>>
          /\ pool' = [pool EXCEPT !.resultChan = Tail(@),
                                  !.results = [pc |-> "record",
                                               result |-> Head(pool.resultChan)]]
       \/ /\ pool.resultChan = <<>>
          /\ pool.resultChanClosed
          /\ pool' = [pool EXCEPT !.results = [pc |-> "record",
                                               result |-> NoResult]]
    /\ PoolFrame

\* processResults, lines 121-128: result.Error is read under the lock; the
\* result received from the closed channel is nil
ResultsL121 ==
    /\ Running
    /\ pool.results.pc = "record"
    /\ pool' =
          IF pool.results.result = NoResult
          THEN [pool EXCEPT !.panic = "nil pointer dereference"]
          ELSE [pool EXCEPT
                  !.TasksFailed = IF pool.results.result.Error
                                  THEN @ + 1 ELSE @,
                  !.TasksCompleted = IF pool.results.result.Error
                                     THEN @ ELSE @ + 1,
                  !.results = [pc |-> "select", result |-> NoResult]]
    /\ PoolFrame

ResultsSteps == ResultsL117 \/ ResultsL121

\* Stop is called
StopCall(s) ==
    /\ Running
    /\ pool.stop[s] = "idle"
    /\ pool' = [pool EXCEPT !.stop[s] = "L160"]
    /\ PoolFrame

\* Stop, lines 160-166
StopL160(s) ==
    /\ Running
    /\ pool.stop[s] = "L160"
    /\ pool' = IF pool.stopped
               THEN [pool EXCEPT !.stop[s] = "returned"]
               ELSE [pool EXCEPT !.stopped = TRUE, !.stop[s] = "L168"]
    /\ PoolFrame

\* Stop, line 168: wp.cancel()
StopL168(s) ==
    /\ Running
    /\ pool.stop[s] = "L168"
    /\ pool' = [pool EXCEPT !.ctxDone = TRUE, !.stop[s] = "L171"]
    /\ PoolFrame

\* Stop, lines 171-176: the task queue is closed
StopL171(s) ==
    /\ Running
    /\ pool.stop[s] = "L171"
    /\ pool' = IF pool.taskClosed
               THEN [pool EXCEPT !.stop[s] = "L178"]
               ELSE IF pool.taskQueueClosed
               THEN [pool EXCEPT !.panic = "close of closed channel"]
               ELSE [pool EXCEPT !.taskQueueClosed = TRUE,
                                 !.taskClosed = TRUE,
                                 !.stop[s] = "L178"]
    /\ PoolFrame

\* Stop, line 178: wp.wg.Wait()
StopL178(s) ==
    /\ Running
    /\ pool.stop[s] = "L178"
    /\ pool.wg = 0
    /\ pool' = [pool EXCEPT !.stop[s] = "L181"]
    /\ PoolFrame

\* Stop, lines 181-186: the result channel is closed
StopL181(s) ==
    /\ Running
    /\ pool.stop[s] = "L181"
    /\ pool' = IF pool.resultClosed
               THEN [pool EXCEPT !.stop[s] = "L187"]
               ELSE IF pool.resultChanClosed
               THEN [pool EXCEPT !.panic = "close of closed channel"]
               ELSE [pool EXCEPT !.resultChanClosed = TRUE,
                                 !.resultClosed = TRUE,
                                 !.stop[s] = "L187"]
    /\ PoolFrame

\* Stop, line 187: the call returns
StopL187(s) ==
    /\ Running
    /\ pool.stop[s] = "L187"
    /\ pool' = [pool EXCEPT !.stop[s] = "returned"]
    /\ PoolFrame

StopSteps(s) ==
    \/ StopL160(s)
    \/ StopL168(s)
    \/ StopL171(s)
    \/ StopL178(s)
    \/ StopL181(s)
    \/ StopL187(s)

Submitted(op, err) ==
    [pool EXCEPT !.submitted = @ + 1,
                 !.sub = [id |-> pool.submitted + 1, op |-> op, err |-> err]]

\* The send case of a submit's select, when it can proceed
SendCase(op) ==
    \/ /\ pool.taskQueueClosed
       /\ pool' = [Submitted(op, "panic") EXCEPT
                     !.panic = "send on closed channel"]
    \/ /\ ~pool.taskQueueClosed
       /\ Len(pool.taskQueue) < QueueSize
       /\ pool' = [Submitted(op, "") EXCEPT
                     !.taskQueue = Append(@, pool.submitted + 1)]

\* SubmitTask: send, <-wp.ctx.Done(), or default when neither can proceed
SubmitTask ==
    /\ Running
    /\ pool.submitted < MaxTasks
    /\ \/ SendCase("SubmitTask")
       \/ /\ pool.ctxDone
          /\ pool' = Submitted("SubmitTask", "ErrPoolClosed")
       \/ /\ ~pool.ctxDone
          /\ ~pool.taskQueueClosed
          /\ Len(pool.taskQueue) >= QueueSize
          /\ pool' = Submitted("SubmitTask", "ErrQueueFull")
    /\ PoolFrame

\* SubmitTaskWithTimeout, at the moment its select proceeds: send, or the
\* context with the timeout is done (the pool's context is done, or the
\* time is up)
SubmitTaskWithTimeout ==
    /\ Running
    /\ pool.submitted < MaxTasks
    /\ \/ SendCase("SubmitTaskWithTimeout")
       \/ pool' = Submitted("SubmitTaskWithTimeout", "ErrSubmissionTimeout")
    /\ PoolFrame

NextPool ==
    \/ StartPool
    \/ \E w \in Workers : WorkerSteps(w)
    \/ ResultsSteps
    \/ \E s \in Stoppers : StopCall(s)
    \/ \E s \in Stoppers : StopSteps(s)
    \/ SubmitTask
    \/ SubmitTaskWithTimeout

SpecPool == Init /\ [][NextPool]_vars

\* C39: a submit made after Stop has begun (the stopped flag is set)
\* returns ErrPoolClosed or ErrSubmissionTimeout, leaves the task queue as
\* it was and does not send on the closed queue
C39_SubmitAfterStopRefused ==
    [][(pool.stopped /\ pool'.submitted # pool.submitted)
         => /\ pool'.sub.err \in {"ErrPoolClosed", "ErrSubmissionTimeout"}
            /\ pool'.taskQueue = pool.taskQueue
            /\ pool'.panic = ""]_vars


(***************************************************************************)
(* Stop with clients that submit no task once Stop has begun.  The         *)
(* goroutines are scheduled fairly: a worker, processResults and a caller  *)
(* of Stop each take their next step when it stays possible; a task        *)
(* handler returns (WorkerL96).  Whether and when Stop is called and tasks *)
(* are submitted is left to the clients.                                   *)
(***************************************************************************)
SubmitBeforeStop ==
    /\ Running
    /\ ~pool.stopped
    /\ \A s \in Stoppers : pool.stop[s] = "idle"
    /\ (SubmitTask \/ SubmitTaskWithTimeout)

NextStop ==
    \/ StartPool
    \/ \E w \in Workers : WorkerSteps(w)
    \/ ResultsSteps
    \/ \E s \in Stoppers : StopCall(s)
    \/ \E s \in Stoppers : StopSteps(s)
    \/ SubmitBeforeStop

SpecStop ==
    /\ Init
    /\ [][NextStop]_vars
    /\ \A w \in Workers : WF_vars(WorkerSteps(w))
    /\ WF_vars(ResultsSteps)
    /\ \A s \in Stoppers : WF_vars(StopSteps(s))

\* C40: every call of Stop returns; the call that shuts the pool down
\* passes wg.Wait() only when every worker has exited and ActiveWorkers is
\* 0; no channel is closed twice.
C40_StopTerminates ==
    /\ \A s \in Stoppers :
          (pool.started /\ pool.stop[s] # "idle")
              ~> (pool.started /\ pool.stop[s] = "returned")
    /\ [](pool.started
            => \A s \in Stoppers :
                  pool.stop[s] \in {"L181", "L187"}
                      => /\ pool.ActiveWorkers = 0
                         /\ \A w \in Workers : pool.worker[w].pc = "gone")
    /\ [](pool.panic # "close of closed channel")

=============================================================================
